---- MODULE Spec2Model ----
(***************************************************************************)
(* State-machine model of the retrieval pipeline of tutor-virtual-be:      *)
(*   - chunkText            (src/services/ragService.js)                   *)
(*   - EmbeddingCache       (src/services/embeddingCacheService.js)        *)
(*   - generateEmbeddings, processDocument, findSimilarChunks              *)
(*                          (src/services/ragService.js)                   *)
(* Texts are sequences of one-character strings; JavaScript indices are    *)
(* 0-based and are kept 0-based in every operator that models a JS call.   *)
(***************************************************************************)
EXTENDS Integers, Sequences, FiniteSets, TLC

VARIABLES
    \* ---- chunkText: one call, stepped per loop iteration
    text, maxTokens, overlap, start, chunks, spans, chunkPc,
    \* ---- EmbeddingCache: the singleton's fields, the clock, the last call made
    \* on it, and a log of the set calls (a history variable)
    now, cache, hitCount, missCount, lastOp, setLog,
    \* ---- the tables contents and document_chunks, the processDocument calls in
    \* progress, how many were started, and the last findSimilarChunks call
    contents, document_chunks, proc, runsStarted, lastQuery,
    \* ---- getConversationHistory: one call, stepped per loop iteration; the
    \* session's log as findMany returns it, and whether findMany threw
    sessionLog, historyMaxTokens, messages, historyI, conversation, tokenCount, historyPc,
    \* ---- the context sections of getChatResponseWithContextAndReferences: the
    \* ranked chunks it was given and what it built from them
    relevantChunks, documentGroups, contextSections, contextTokenCount, contextPc,
    \* ---- getChatResponseWithContextAndReferences: its arguments, the promises
    \* of its parallel stage, what it took from them, and the request it built
    userMessage, sessionId, includeExternalReferences, results,
    conversationHistory, externalReferences, systemPrompt, totalTokenEstimate,
    chatMessages, chatPc,
    \* ---- processAllCourseDocuments: one call, stepped per document; the
    \* course, the documents whose file cannot be fetched or parsed, what
    \* findMany returned, the loop's position and the result list
    batchCourseId, failingDocuments, unprocessedContent, batchI, batchResults,
    batchPc,
    \* ---- generateEmbeddings: the calls in progress, each with its text, its
    \* place, the cache and service calls it has made so far and what it
    \* returned; and how many calls were started
    embedCalls, callsStarted,
    \* ---- the cleanup scheduler (cleanupScheduler.js): its two module
    \* variables, the invocations of runCleanup by the timers and by the
    \* manual requests with what became of the last one, and how many
    \* invocations were made
    isCleanupRunning, cleanupInterval, invocations, invocationsMade

chunkVars == <<text, maxTokens, overlap, start, chunks, spans, chunkPc>>

cacheVars == <<now, cache, hitCount, missCount, lastOp, setLog>>

storeVars == <<contents, document_chunks, proc, runsStarted, lastQuery>>

histVars ==
    <<sessionLog, historyMaxTokens, messages, historyI, conversation, tokenCount, historyPc>>

contextVars ==
    <<relevantChunks, documentGroups, contextSections, contextTokenCount, contextPc>>

chatVars ==
    <<userMessage, sessionId, includeExternalReferences, results,
      conversationHistory, externalReferences, systemPrompt, totalTokenEstimate,
      chatMessages, chatPc>>

batchVars ==
    <<batchCourseId, failingDocuments, unprocessedContent, batchI, batchResults,
      batchPc>>

embedVars == <<embedCalls, callsStarted>>

cleanupVars == <<isCleanupRunning, cleanupInterval, invocations, invocationsMade>>

vars == <<chunkVars, cacheVars, storeVars, histVars, contextVars, chatVars, batchVars, embedVars, cleanupVars>>

(***************************************************************************)
(* Bounds of the model                                                     *)
(***************************************************************************)
MaxTextLen == 13
MaxTokensBound == 3
MaxChunks == 8
MaxTime == 2
MaxLookups == 2
MaxRuns == 2
MaxLimit == 3
MaxRewind == 16
MaxMessages == 3
MaxBudget == 4

(***************************************************************************)
(* JavaScript string primitives                                            *)
(***************************************************************************)
Min(a, b) == IF a < b THEN a ELSE b
Max(a, b) == IF a > b THEN a ELSE b

Whitespace == {" ", "\n"}

\* String.prototype.slice(from, to), 0-based, negative indices count from the end.
SliceFrom(len, i) == IF i < 0 THEN Max(len + i, 0) ELSE Min(i, len)

Slice(s, from, to) ==
    LET f == SliceFrom(Len(s), from)
        t == SliceFrom(Len(s), to)
    IN  IF f < t THEN SubSeq(s, f + 1, t) ELSE << >>

\* String.prototype.lastIndexOf(ch, fromIndex): -1 when absent.
LastIndexOf(s, ch, fromIndex) ==
    LET top == Min(Max(fromIndex, 0), Len(s) - 1)
        hits == { i \in 0..top : s[i + 1] = ch }
    IN  IF hits = {} THEN -1 ELSE CHOOSE i \in hits : \A j \in hits : j <= i

\* String.prototype.trim()
Trim(s) ==
    LET solid == { i \in 1..Len(s) : s[i] \notin Whitespace }
    IN  IF solid = {} THEN << >>
        ELSE SubSeq(s, CHOOSE i \in solid : \A j \in solid : i <= j,
                       CHOOSE i \in solid : \A j \in solid : j <= i)

\* Number of leading whitespace characters, which trim() removes.
LeadWs(s) ==
    LET solid == { i \in 1..Len(s) : s[i] \notin Whitespace }
    IN  IF solid = {} THEN Len(s)
        ELSE (CHOOSE i \in solid : \A j \in solid : i <= j) - 1

\* estimateTokenCount: Math.ceil(text.length / 4)
estimateTokenCount(s) == (Len(s) + 3) \div 4

(***************************************************************************)
(* chunkText(text, maxTokens, overlap)                                     *)
(***************************************************************************)
maxChars == maxTokens * 4
overlapChars == overlap * 4

\* The end of the window with a break point at the 50% mark accepted too.
WindowEndAtHalf(s, st, mc) ==
    LET naive == st + mc
        lastSentence == LastIndexOf(s, ".", naive)
        lastNewline == LastIndexOf(s, "\n", naive)
        breakPoint == Max(lastSentence, lastNewline)
    IN  IF naive < Len(s) /\ 2 * breakPoint >= 2 * st + mc
        THEN breakPoint + 1
        ELSE naive

\* Lines 88-99: the end of the window that starts at st.
WindowEnd(s, st, mc) ==
    LET naive == st + mc
        lastSentence == LastIndexOf(s, ".", naive)
        lastNewline == LastIndexOf(s, "\n", naive)
        breakPoint == Max(lastSentence, lastNewline)
    IN  IF naive < Len(s) /\ 2 * breakPoint > 2 * st + mc
        THEN breakPoint + 1
        ELSE naive

\* Lines 77-85: the short-text return, or entry into the loop.
ChunkCall ==
    /\ chunkPc = "call"
    /\ IF Len(text) <= maxChars
       THEN /\ chunks' = << [content |-> text, tokenCount |-> estimateTokenCount(text)] >>
            /\ spans' = << <<0, Len(text)>> >>
            /\ chunkPc' = "done"
       ELSE /\ chunks' = << >>
            /\ spans' = << >>
            /\ chunkPc' = "loop"
    /\ start' = 0
    /\ UNCHANGED <<text, maxTokens, overlap, cacheVars, storeVars, histVars, contextVars, chatVars, batchVars, embedVars, cleanupVars>>

\* Lines 87-110: one iteration of the while loop.
ChunkIter ==
    /\ chunkPc = "loop"
    /\ start < Len(text)
    /\ Len(chunks) < MaxChunks
    /\ start + MaxRewind >= 0
    /\ LET end == WindowEnd(text, start, maxChars)
           slice == Slice(text, start, end)
           chunk == Trim(slice)
           from == SliceFrom(Len(text), start) + LeadWs(slice)
       IN  /\ IF Len(chunk) > 0
              THEN /\ chunks' = Append(chunks,
                          [content |-> chunk, tokenCount |-> estimateTokenCount(chunk)])
                   /\ spans' = Append(spans, <<from, from + Len(chunk)>>)
              ELSE UNCHANGED <<chunks, spans>>
           /\ start' = end - overlapChars
    /\ UNCHANGED <<text, maxTokens, overlap, chunkPc, cacheVars, storeVars, histVars, contextVars, chatVars, batchVars, embedVars, cleanupVars>>

\* Lines 87, 112: the loop condition fails and the chunks are returned.
ChunkReturn ==
    /\ chunkPc = "loop"
    /\ start >= Len(text)
    /\ chunkPc' = "done"
    /\ UNCHANGED <<text, maxTokens, overlap, start, chunks, spans, cacheVars, storeVars, histVars, contextVars, chatVars, batchVars, embedVars, cleanupVars>>


(***************************************************************************)
(* EmbeddingCache                                                          *)
(***************************************************************************)
\* Constructor, lines 11-12: the configured capacity and time to live (ms).
maxSize == 2
ttl == 1

Null == "null"

\* lastOp when no call has been made at the current clock reading; a call
\* leaves its name, its text, what it returned and, for cleanup, its
\* removedCount (line 111).
NoOp == [op |-> "none", text |-> << >>, ret |-> Null, removedCount |-> 0]

\* setLog when no set call is being followed.
NoSet == [text |-> << >>, vec |-> Null, at |-> 0]

Lower(c) == CASE c = "A" -> "a" [] c = "B" -> "b" [] OTHER -> c

\* replace(/\s+/g, ' ')
RECURSIVE CollapseWs(_)
CollapseWs(s) ==
    IF s = << >> THEN << >>
    ELSE IF Head(s) \in Whitespace
         THEN IF Len(s) > 1 /\ s[2] \in Whitespace
              THEN CollapseWs(Tail(s))
              ELSE <<" ">> \o CollapseWs(Tail(s))
         ELSE <<Head(s)>> \o CollapseWs(Tail(s))

\* Line 29: text.toLowerCase().trim().replace(/\s+/g, ' ')
Normalized(s) == CollapseWs(Trim([i \in 1..Len(s) |-> Lower(s[i])]))

\* Line 32: the 16 hex digits of the SHA-256 digest, as <<first 8, last 8>>.
\* The digest is abstracted by an injective code of the normalized text whose
\* first half depends on the first character only, so that distinct keys may
\* share their first 8 digits, as truncated digests may.
Digest(n) == << IF n = << >> THEN "" ELSE n[1], n >>

\* generateKey without toLowerCase().
generateKeyCaseSensitive(s) == Digest(CollapseWs(Trim(s)))

generateKey(s) == Digest(Normalized(s))

KeyPrefix(key) == key[1]

CacheKeys == { cache[i].key : i \in 1..Len(cache) }

IndexOfKey(key) == CHOOSE i \in 1..Len(cache) : cache[i].key = key

\* Map.prototype.delete: the other entries keep their insertion order.
MapDelete(m, key) == SelectSeq(m, LAMBDA e : e.key # key)

\* Map.prototype.set: a present key keeps its place, a new one goes last.
MapSet(m, entry) ==
    IF \E i \in 1..Len(m) : m[i].key = entry.key
    THEN [i \in 1..Len(m) |-> IF m[i].key = entry.key THEN entry ELSE m[i]]
    ELSE Append(m, entry)

Expired(entry, t) == t - entry.timestamp > ttl

\* Lines 87-104: the first entry, in insertion order, of the least lastAccessed
\* strictly below Date.now(); nothing is deleted when there is none.
evictOldest(m, t) ==
    LET older == { i \in 1..Len(m) : m[i].lastAccessed < t }
        least == { i \in older : \A j \in older : m[i].lastAccessed <= m[j].lastAccessed }
    IN  IF older = {} THEN m
        ELSE MapDelete(m, m[CHOOSE i \in least : \A j \in least : i <= j].key)

\* setLog follows one set call, chosen freely among those made: its text, its
\* vector and its time, for as long as no entry has been removed (by an
\* eviction, an expiry, a sweep or a clear) and no later set call has written
\* the same key. LogAfter(m) is the log once the cache has become m.
LogAfter(m) ==
    IF \A k \in CacheKeys : \E i \in 1..Len(m) : m[i].key = k
    THEN setLog
    ELSE NoSet

\* Lines 38-61
CacheGetResult(s) ==
    LET key == generateKey(s)
    IN  IF key \notin CacheKeys THEN Null
        ELSE IF Expired(cache[IndexOfKey(key)], now) THEN Null
        ELSE cache[IndexOfKey(key)].embeddings

\* A get whose hit also renews the entry's timestamp (a sliding expiry).
CacheGetEffectSliding(s) ==
    LET key == generateKey(s)
    IN  IF key \notin CacheKeys THEN cache
        ELSE IF Expired(cache[IndexOfKey(key)], now) THEN MapDelete(cache, key)
        ELSE [cache EXCEPT ![IndexOfKey(key)].lastAccessed = now,
                           ![IndexOfKey(key)].timestamp = now]

CacheGetEffect(s) ==
    LET key == generateKey(s)
    IN  IF key \notin CacheKeys THEN cache
        ELSE IF Expired(cache[IndexOfKey(key)], now) THEN MapDelete(cache, key)
        ELSE [cache EXCEPT ![IndexOfKey(key)].lastAccessed = now]

\* Lines 66-82
CacheSetEffect(s, v) ==
    LET room == IF Len(cache) >= maxSize THEN evictOldest(cache, now) ELSE cache
    IN  MapSet(room, [key |-> generateKey(s), embeddings |-> v, timestamp |-> now,
                      lastAccessed |-> now, textLength |-> Len(s)])

\* A sweep that goes by the last access instead of the insertion.
CleanupEffectByLastAccess ==
    SelectSeq(cache, LAMBDA e : ~(now - e.lastAccessed > ttl))

\* Lines 109-123
CleanupEffect == SelectSeq(cache, LAMBDA e : ~Expired(e, now))

\* Lines 165-174: the entries findSimilarCached accepts for a text.
SimilarMatches(s, threshold) ==
    { i \in 1..Len(cache) :
        /\ ~Expired(cache[i], now)
        /\ Max(Len(s), cache[i].textLength) > 0
        /\ 100 * Min(Len(s), cache[i].textLength)
              >= threshold * Max(Len(s), cache[i].textLength)
        /\ KeyPrefix(generateKey(s)) = KeyPrefix(cache[i].key) }

FirstOf(S) == CHOOSE i \in S : \A j \in S : i <= j

(***************************************************************************)
(* Inputs of the cache: texts that share a normalized form, texts that     *)
(* share only the first half of their key, and an unrelated text.          *)
(***************************************************************************)
CacheTexts ==
    { <<"a", " ", "b">>, <<"A", " ", " ", "B">>, <<"a", "b", "b">>, <<"b">> }

\* The vector the embedding service gives each text (set is only called with
\* the service's answer, ragService.js line 301).
ServiceVector(s) == IF s \in { <<"a", " ", "b">>, <<"b">> } THEN "v1" ELSE "v2"

\* ragService.js line 280: the only threshold findSimilarCached is called with, in percent.
Thresholds == {85}

Tick ==
    /\ now < MaxTime
    /\ now' = now + 1
    /\ lastOp' = NoOp
    /\ UNCHANGED <<cache, hitCount, missCount, setLog, chunkVars, storeVars, histVars, contextVars, chatVars, batchVars, embedVars, cleanupVars>>

CacheGet ==
    \E s \in CacheTexts :
        /\ hitCount + missCount < MaxLookups
        /\ cache' = CacheGetEffect(s)
        /\ IF CacheGetResult(s) = Null
           THEN missCount' = missCount + 1 /\ hitCount' = hitCount
           ELSE hitCount' = hitCount + 1 /\ missCount' = missCount
        /\ lastOp' = [op |-> "get", text |-> s, ret |-> CacheGetResult(s), removedCount |-> 0]
        /\ setLog' = LogAfter(cache')
        /\ UNCHANGED <<now, chunkVars, storeVars, histVars, contextVars, chatVars, batchVars, embedVars, cleanupVars>>

CacheSet ==
    \E s \in CacheTexts :
      LET v == ServiceVector(s) IN
        /\ cache' = CacheSetEffect(s, v)
        /\ lastOp' = [op |-> "set", text |-> << >>, ret |-> Null, removedCount |-> 0]
        /\ LET room == IF Len(cache) >= maxSize THEN evictOldest(cache, now) ELSE cache
               kept == IF Normalized(setLog.text) = Normalized(s)
                       THEN NoSet ELSE LogAfter(room)
           IN  setLog' \in {kept, [text |-> s, vec |-> v, at |-> now]}
        /\ UNCHANGED <<now, hitCount, missCount, chunkVars, storeVars, histVars, contextVars, chatVars, batchVars, embedVars, cleanupVars>>

CacheFindSimilar ==
    \E s \in CacheTexts, threshold \in Thresholds :
        /\ hitCount + missCount < MaxLookups
        /\ LET found == SimilarMatches(s, threshold)
           IN  IF found = {}
               THEN /\ lastOp' = [op |-> "findSimilarCached", text |-> s,
                                  ret |-> Null, removedCount |-> 0]
                    /\ UNCHANGED <<cache, hitCount>>
               ELSE /\ cache' = [cache EXCEPT ![FirstOf(found)].lastAccessed = now]
                    /\ hitCount' = hitCount + 1
                    /\ lastOp' = [op |-> "findSimilarCached", text |-> s,
                                  ret |-> cache[FirstOf(found)].embeddings,
                                  removedCount |-> 0]
        /\ UNCHANGED <<now, missCount, setLog, chunkVars, storeVars, histVars, contextVars, chatVars, batchVars, embedVars, cleanupVars>>

CacheCleanup ==
    /\ cache' = CleanupEffect
    /\ lastOp' = [op |-> "cleanup", text |-> << >>, ret |-> Null,
                  removedCount |-> Len(cache) - Len(CleanupEffect)]
    /\ setLog' = LogAfter(cache')
    /\ UNCHANGED <<now, hitCount, missCount, chunkVars, storeVars, histVars, contextVars, chatVars, batchVars, embedVars, cleanupVars>>

\* Lines 150-155
CacheClear ==
    /\ cache' = << >>
    /\ hitCount' = 0
    /\ missCount' = 0
    /\ lastOp' = [op |-> "clear", text |-> << >>, ret |-> Null, removedCount |-> 0]
    /\ setLog' = LogAfter(cache')
    /\ UNCHANGED <<now, chunkVars, storeVars, histVars, contextVars, chatVars, batchVars, embedVars, cleanupVars>>

\* Lines 10-14: the state the constructor leaves.
CacheConstructed ==
    /\ now = 0
    /\ cache = << >>
    /\ hitCount = 0
    /\ missCount = 0
    /\ lastOp = NoOp
    /\ setLog = NoSet

ChunkIdle ==
    /\ text = << >>
    /\ maxTokens = 1
    /\ overlap = 0
    /\ start = 0
    /\ chunks = << >>
    /\ spans = << >>
    /\ chunkPc = "idle"

\* Line 878: no external references.
NoReferences == [journals |-> << >>, books |-> << >>, websites |-> << >>]

\* A promise that was not created.
NoPromise == [status |-> "none", value |-> << >>, failed |-> FALSE]

\* A system prompt: its number of characters and whether it ends with the notice.
NoPrompt == [chars |-> 0, notice |-> FALSE]

\* No getChatResponseWithContextAndReferences call is under way.
ChatIdle ==
    /\ userMessage = 0
    /\ sessionId = FALSE
    /\ includeExternalReferences = FALSE
    /\ results = << NoPromise, NoPromise, NoPromise >>
    /\ conversationHistory = << >>
    /\ externalReferences = NoReferences
    /\ systemPrompt = NoPrompt
    /\ totalTokenEstimate = 0
    /\ chatMessages = << >>
    /\ chatPc = "idle"

\* Who invokes the cleanup: the setTimeout and setInterval callbacks of
\* startCleanupScheduler and two requests to runManualCleanup.
Timers == {"timeout", "interval"}
Manuals == {"manual1", "manual2"}

\* An invoker that has not invoked yet.
NotInvoked == [pc |-> "idle", outcome |-> "none"]

\* part_005 lines 7-8: the module as loaded.
CleanupIdle ==
    /\ isCleanupRunning = FALSE
    /\ cleanupInterval = FALSE
    /\ invocations = [c \in Timers \cup Manuals |-> NotInvoked]
    /\ invocationsMade = 0

Callers == {"c1", "c2"}

\* A caller with no generateEmbeddings call under way.
NoCall == [pc |-> "idle", text |-> << >>, trace |-> << >>, ret |-> Null]

EmbedIdle ==
    /\ embedCalls = [c \in Callers |-> NoCall]
    /\ callsStarted = 0

\* No processAllCourseDocuments call is under way.
BatchIdle ==
    /\ batchCourseId = Null
    /\ failingDocuments = {}
    /\ unprocessedContent = << >>
    /\ batchI = 0
    /\ batchResults = << >>
    /\ batchPc = "idle"

\* No context is being built.
ContextIdle ==
    /\ relevantChunks = << >>
    /\ documentGroups = << >>
    /\ contextSections = << >>
    /\ contextTokenCount = 0
    /\ contextPc = "idle"

\* No getConversationHistory call is under way.
HistoryIdle ==
    /\ sessionLog = << >>
    /\ historyMaxTokens = 0
    /\ messages = << >>
    /\ historyI = 0
    /\ conversation = << >>
    /\ tokenCount = 0
    /\ historyPc = "idle"



(***************************************************************************)
(* The vector store: contents, document_chunks, processDocument and        *)
(* findSimilarChunks                                                       *)
(***************************************************************************)
\* ragService.js line 19, in percent.
SIMILARITY_THRESHOLD == 5

Courses == {"cA", "cB"}
ContentIds == {1, 2}
CourseOf(contentId) == IF contentId = 1 THEN "cA" ELSE "cB"

Vectors == {"v1", "v2", "v3", "v4", "v5", "v6"}

\* pgvector's <=> (cosine distance), in percent, on the model's six vectors:
\* 0 between a vector and itself, symmetric, between 0 and 200.
DistanceTable(u, v) ==
    CASE {u, v} = {"v1", "v2"} -> 50
      [] {u, v} = {"v1", "v3"} -> 32
      [] {u, v} = {"v1", "v4"} -> 66
      [] {u, v} = {"v1", "v5"} -> 88
      [] {u, v} = {"v1", "v6"} -> 97
      [] {u, v} = {"v2", "v3"} -> 95
      [] {u, v} = {"v2", "v4"} -> 120
      [] {u, v} = {"v2", "v5"} -> 94
      [] {u, v} = {"v2", "v6"} -> 32
      [] OTHER -> 100

CosineDistance(u, v) == IF u = v THEN 0 ELSE DistanceTable(u, v)

\* Line 431: (1 - (dc.embeddings <=> query)) as similarity
Similarity(row, query) == 100 - CosineDistance(row.embeddings, query)

\* The WHERE clause with >= for > in the threshold test.
EligibleAtThreshold(courseId, query) ==
    { r \in 1..Len(document_chunks) :
        /\ CourseOf(document_chunks[r].contentId) = courseId
        /\ contents[document_chunks[r].contentId].isProcessed
        /\ document_chunks[r].embeddings # Null
        /\ Similarity(document_chunks[r], query) >= SIMILARITY_THRESHOLD }

\* The WHERE clause without c."isProcessed" = true.
EligibleUnprocessedToo(courseId, query) ==
    { r \in 1..Len(document_chunks) :
        /\ CourseOf(document_chunks[r].contentId) = courseId
        /\ document_chunks[r].embeddings # Null
        /\ Similarity(document_chunks[r], query) > SIMILARITY_THRESHOLD }

\* Lines 432-438: the rows the WHERE clause keeps.
Eligible(courseId, query) ==
    { r \in 1..Len(document_chunks) :
        /\ CourseOf(document_chunks[r].contentId) = courseId
        /\ contents[document_chunks[r].contentId].isProcessed
        /\ document_chunks[r].embeddings # Null
        /\ Similarity(document_chunks[r], query) > SIMILARITY_THRESHOLD }

\* ORDER BY distance DESC: the farthest rows first.
QueryAnswersFarthestFirst(courseId, query, limit) ==
    LET rows == Eligible(courseId, query)
        n == Min(limit, Cardinality(rows))
        dist(r) == CosineDistance(document_chunks[r].embeddings, query)
    IN  { res \in [1..n -> rows] :
            /\ \A i, j \in 1..n : i < j => res[i] # res[j] /\ dist(res[i]) >= dist(res[j])
            /\ \A r \in rows : (\A i \in 1..n : res[i] # r) =>
                   \A i \in 1..n : dist(res[i]) >= dist(r) }

\* Lines 439-440: ORDER BY distance LIMIT limit. Rows at the same distance come
\* in an order the database chooses, so the answers are a set.
QueryAnswers(courseId, query, limit) ==
    LET rows == Eligible(courseId, query)
        n == Min(limit, Cardinality(rows))
        dist(r) == CosineDistance(document_chunks[r].embeddings, query)
    IN  { res \in [1..n -> rows] :
            /\ \A i, j \in 1..n : i < j => res[i] # res[j] /\ dist(res[i]) <= dist(res[j])
            /\ \A r \in rows : (\A i \in 1..n : res[i] # r) =>
                   \A i \in 1..n : dist(res[i]) <= dist(r) }

\* Lines 467-482: the objects returned for the rows.
ResultOf(res, query) ==
    [i \in 1..Len(res) |->
        [chunkId |-> res[i],
         contentId |-> document_chunks[res[i]].contentId,
         chunkIndex |-> document_chunks[res[i]].chunkIndex,
         similarity |-> Similarity(document_chunks[res[i]], query)]]

\* A catch block that rethrows, as the one of generateEmbeddings does.
FindSimilarChunksCatchRethrows == [returned |-> << >>, threw |-> TRUE]

\* Lines 483-486: the catch block of findSimilarChunks.
FindSimilarChunksCatch == [returned |-> << >>, threw |-> FALSE]

\* Lines 271-308 as seen by a caller: generateEmbeddings throws (it rethrows
\* the service's error) or returns a vector: the cached one, a fuzzy match's
\* or the service's.
QueryVectors == {"v1", "v2"}
EmbeddingOutcomes == {"throw"} \cup QueryVectors

NoQuery == [courseId |-> "none", query |-> Null, limit |-> 0, failure |-> "none",
            returned |-> << >>, threw |-> FALSE]

\* Lines 403-487
FindSimilarChunks ==
    \E courseId \in Courses, limit \in 0..MaxLimit, e \in EmbeddingOutcomes,
       dbFails \in BOOLEAN :
        /\ lastQuery = NoQuery
        /\ IF e = "throw"
           THEN lastQuery' = [courseId |-> courseId, query |-> Null, limit |-> limit,
                              failure |-> "embedding",
                              returned |-> FindSimilarChunksCatch.returned,
                              threw |-> FindSimilarChunksCatch.threw]
           ELSE IF dbFails
           THEN lastQuery' = [courseId |-> courseId, query |-> e, limit |-> limit,
                              failure |-> "database",
                              returned |-> FindSimilarChunksCatch.returned,
                              threw |-> FindSimilarChunksCatch.threw]
           ELSE \E res \in QueryAnswers(courseId, e, limit) :
                    lastQuery' = [courseId |-> courseId, query |-> e, limit |-> limit,
                                  failure |-> "none",
                                  returned |-> ResultOf(res, e), threw |-> FALSE]
        /\ UNCHANGED <<contents, document_chunks, proc, runsStarted, chunkVars, cacheVars, histVars, contextVars, chatVars, batchVars, embedVars, cleanupVars>>

\* Line 855: the caller takes the answer of its findSimilarChunks call.
FindSimilarChunksTaken ==
    /\ lastQuery # NoQuery
    /\ lastQuery' = NoQuery
    /\ UNCHANGED <<contents, document_chunks, proc, runsStarted, chunkVars, cacheVars, histVars, contextVars, chatVars, batchVars, embedVars, cleanupVars>>

\* The chunks chunkText gives for each document's text (line 346).
DocChunks(contentId) ==
    IF contentId = 1 THEN << <<"a", " ", "b">>, <<"a", "b", "b">> >>
    ELSE << <<"b">> >>

Workers == {"w1"}

\* A worker is at a place in processDocument (pc), on a document, at chunk i,
\* and embeddingFailed tells whether generateEmbeddings threw for a chunk of
\* this run (a history field).
Idle == [pc |-> "idle", contentId |-> 0, i |-> 0, embeddingFailed |-> FALSE]

\* Lines 313-332 for one document: the run goes on to the metadata update, or
\* to the catch block.
BeginRun(contentId, ok) ==
    [pc |-> IF ok THEN "meta" ELSE "catch", contentId |-> contentId, i |-> 0,
     embeddingFailed |-> FALSE]

\* Lines 313-332: the document is read, fetched and parsed; any failure goes
\* to the catch block.
ProcessDocumentBegin ==
    \E w \in DOMAIN proc, contentId \in ContentIds, ok \in BOOLEAN :
        /\ proc[w].pc = "idle"
        /\ runsStarted < MaxRuns
        /\ runsStarted' = runsStarted + 1
        /\ proc' = [proc EXCEPT ![w] = BeginRun(contentId, ok)]
        /\ UNCHANGED <<contents, document_chunks, lastQuery, chunkVars, cacheVars, histVars, contextVars, chatVars, batchVars, embedVars, cleanupVars>>

\* Lines 335-343
ProcessDocumentMeta ==
    \E w \in DOMAIN proc :
        /\ proc[w].pc = "meta"
        /\ contents' = [contents EXCEPT ![proc[w].contentId].processingError = Null]
        /\ proc' = [proc EXCEPT ![w].pc = "chunks"]
        /\ lastQuery' = NoQuery
        /\ UNCHANGED <<document_chunks, runsStarted, chunkVars, cacheVars, histVars, contextVars, chatVars, batchVars, embedVars, cleanupVars>>

\* Lines 352-374: one iteration; a failed embedding or insert skips the chunk.
ProcessDocumentChunk ==
    \E w \in DOMAIN proc, insertFails \in BOOLEAN :
        /\ proc[w].pc = "chunks"
        /\ proc[w].i < Len(DocChunks(proc[w].contentId))
        /\ \E e \in {"throw", ServiceVector(DocChunks(proc[w].contentId)[proc[w].i + 1])} :
           /\ IF e = "throw" \/ insertFails
              THEN UNCHANGED document_chunks
              ELSE document_chunks' = Append(document_chunks,
                       [contentId |-> proc[w].contentId, chunkIndex |-> proc[w].i,
                        content |-> DocChunks(proc[w].contentId)[proc[w].i + 1],
                        embeddings |-> e])
           /\ proc' = [proc EXCEPT ![w].i = @ + 1,
                                    ![w].embeddingFailed = @ \/ e = "throw"]
        /\ lastQuery' = NoQuery
        /\ UNCHANGED <<contents, runsStarted, chunkVars, cacheVars, histVars, contextVars, chatVars, batchVars, embedVars, cleanupVars>>

\* Lines 377-383
ProcessDocumentMarkProcessed ==
    \E w \in DOMAIN proc :
        /\ proc[w].pc = "chunks"
        /\ proc[w].i = Len(DocChunks(proc[w].contentId))
        /\ contents' = [contents EXCEPT ![proc[w].contentId].isProcessed = TRUE]
        /\ proc' = [proc EXCEPT ![w].pc = "returned"]
        /\ lastQuery' = NoQuery
        /\ UNCHANGED <<document_chunks, runsStarted, chunkVars, cacheVars, histVars, contextVars, chatVars, batchVars, embedVars, cleanupVars>>

\* Lines 384-397
ProcessDocumentCatch ==
    \E w \in DOMAIN proc :
        /\ proc[w].pc = "catch"
        /\ contents' = [contents EXCEPT
                          ![proc[w].contentId].processingError = "error",
                          ![proc[w].contentId].isProcessed = FALSE]
        /\ proc' = [proc EXCEPT ![w].pc = "threw"]
        /\ lastQuery' = NoQuery
        /\ UNCHANGED <<document_chunks, runsStarted, chunkVars, cacheVars, histVars, contextVars, chatVars, batchVars, embedVars, cleanupVars>>

\* adminController.js lines 868-872: the caller takes what the run returned or
\* threw.
ProcessDocumentTaken ==
    \E w \in DOMAIN proc :
        /\ proc[w].pc \in {"returned", "threw"}
        /\ proc' = [proc EXCEPT ![w] = Idle]
        /\ UNCHANGED <<contents, document_chunks, runsStarted, lastQuery, chunkVars, cacheVars, histVars, contextVars, chatVars, batchVars, embedVars, cleanupVars>>

\* The tables at the start: empty with nothing processed; or document 1
\* processed with four chunks at similarities 0.68, 0.34, 0.12, 0.03 to v1;
\* or document 1 processed with the same text chunked twice and document 2,
\* of the other course, processed with one chunk.
Row(contentId, chunkIndex, v) ==
    [contentId |-> contentId, chunkIndex |-> chunkIndex, content |-> <<"a">>,
     embeddings |-> v]

Unprocessed == [isProcessed |-> FALSE, processingError |-> Null]
Processed == [isProcessed |-> TRUE, processingError |-> Null]

SeededTables ==
    { [c |-> [d \in ContentIds |-> Unprocessed], t |-> << >>],
      [c |-> [d \in ContentIds |-> IF d = 1 THEN Processed ELSE Unprocessed],
       t |-> << Row(1, 0, "v3"), Row(1, 1, "v4"), Row(1, 2, "v5"), Row(1, 3, "v6") >>],
      [c |-> [d \in ContentIds |-> Processed],
       t |-> << Row(1, 0, "v3"), Row(1, 1, "v3"), Row(2, 0, "v3") >>] }

StoreIdle ==
    /\ contents = [d \in ContentIds |-> Unprocessed]
    /\ document_chunks = << >>
    /\ proc = [w \in Workers |-> Idle]
    /\ runsStarted = 0
    /\ lastQuery = NoQuery

InitStore ==
    /\ \E seed \in SeededTables : contents = seed.c /\ document_chunks = seed.t
    /\ proc = [w \in Workers |-> Idle]
    /\ runsStarted = 0
    /\ lastQuery = NoQuery
    /\ CacheConstructed
    /\ ChunkIdle
    /\ HistoryIdle
    /\ CleanupIdle
    /\ EmbedIdle
    /\ BatchIdle
    /\ ChatIdle
    /\ ContextIdle

NextStore ==
    \/ FindSimilarChunks
    \/ FindSimilarChunksTaken
    \/ ProcessDocumentBegin
    \/ ProcessDocumentMeta
    \/ ProcessDocumentChunk
    \/ ProcessDocumentMarkProcessed
    \/ ProcessDocumentCatch
    \/ ProcessDocumentTaken

SpecStore == InitStore /\ [][NextStore]_vars

InitCache == CacheConstructed /\ ChunkIdle /\ StoreIdle /\ HistoryIdle /\ ContextIdle /\ ChatIdle /\ BatchIdle /\ EmbedIdle /\ CleanupIdle

NextCache ==
    \/ Tick
    \/ CacheGet
    \/ CacheSet
    \/ CacheFindSimilar
    \/ CacheCleanup
    \/ CacheClear

SpecCache == InitCache /\ [][NextCache]_vars

(***************************************************************************)
(* Inputs of chunkText: texts over {a . \n space} with at most two         *)
(* non-letter characters, and every configuration with overlap < maxTokens *)
(***************************************************************************)
Marks == {".", "\n", " "}

MarkedText(len, p1, c1, p2, c2) ==
    [i \in 1..len |-> IF i = p1 THEN c1 ELSE IF i = p2 THEN c2 ELSE "a"]

ChunkTexts ==
    { MarkedText(t[1], t[2], t[3], t[4], t[5]) :
        t \in { u \in (0..MaxTextLen) \X (0..MaxTextLen) \X Marks
                       \X (0..MaxTextLen) \X Marks :
                  /\ u[2] <= u[1] /\ u[4] <= u[1]
                  /\ (u[2] = 0 => u[3] = ".")
                  /\ (u[4] = 0 => u[5] = ".")
                  /\ (u[2] = 0 => u[4] = 0)
                  /\ (u[4] # 0 => u[2] < u[4]) } }

ValidConfigs ==
    { c \in (1..MaxTokensBound) \X (0..MaxTokensBound) : c[2] < c[1] }

InitChunk ==
    /\ text \in ChunkTexts
    /\ \E c \in ValidConfigs : maxTokens = c[1] /\ overlap = c[2]
    /\ start = 0
    /\ chunks = << >>
    /\ spans = << >>
    /\ chunkPc = "call"
    /\ CacheConstructed
    /\ StoreIdle
    /\ HistoryIdle
    /\ CleanupIdle
    /\ EmbedIdle
    /\ BatchIdle
    /\ ChatIdle
    /\ ContextIdle

NextChunk ==
    \/ ChunkCall
    \/ ChunkIter
    \/ ChunkReturn

SpecChunk == InitChunk /\ [][NextChunk]_vars

\* chunkText takes any two numbers (line 76): every configuration, the ones
\* with overlap >= maxTokens included.
AnyConfigs == (1..MaxTokensBound) \X (0..MaxTokensBound)

InitChunkAnyConfig ==
    /\ text \in ChunkTexts
    /\ \E c \in AnyConfigs : maxTokens = c[1] /\ overlap = c[2]
    /\ start = 0
    /\ chunks = << >>
    /\ spans = << >>
    /\ chunkPc = "call"
    /\ CacheConstructed
    /\ StoreIdle
    /\ HistoryIdle
    /\ CleanupIdle
    /\ EmbedIdle
    /\ BatchIdle
    /\ ChatIdle
    /\ ContextIdle

SpecChunkAnyConfig == InitChunkAnyConfig /\ [][NextChunk]_vars


(***************************************************************************)
(* getConversationHistory(sessionId, maxTokens)                            *)
(***************************************************************************)
\* Line 511
RoleOf(message) == IF message.isFromUser THEN "user" ELSE "assistant"

\* Lines 493-509, 527-530: findMany gives the session's messages oldest first,
\* or throws and the catch block returns the empty list.
HistoryCall ==
    /\ historyPc = "call"
    /\ \E findManyThrows \in BOOLEAN :
         IF findManyThrows
         THEN /\ historyPc' = "caught"
              /\ UNCHANGED <<messages, historyI>>
         ELSE /\ messages' = sessionLog
              /\ historyI' = Len(sessionLog) - 1
              /\ historyPc' = "loop"
    /\ conversation' = << >>
    /\ tokenCount' = 0
    /\ UNCHANGED <<sessionLog, historyMaxTokens, chunkVars, cacheVars, storeVars, contextVars, chatVars, batchVars, embedVars, cleanupVars>>

\* One iteration in which a message over the limit is passed over (continue)
\* where the loop breaks.
HistoryIterSkipping ==
    /\ historyPc = "loop"
    /\ historyI >= 0
    /\ LET message == messages[historyI + 1]
           messageTokens == estimateTokenCount(message.content)
       IN  IF tokenCount + messageTokens > historyMaxTokens
           THEN /\ historyI' = historyI - 1
                /\ UNCHANGED <<conversation, tokenCount, historyPc>>
           ELSE /\ conversation' =
                      << [role |-> RoleOf(message), content |-> message.content] >>
                          \o conversation
                /\ tokenCount' = tokenCount + messageTokens
                /\ historyI' = historyI - 1
                /\ UNCHANGED historyPc
    /\ UNCHANGED <<sessionLog, historyMaxTokens, messages, chunkVars, cacheVars, storeVars, contextVars, chatVars, batchVars, embedVars, cleanupVars>>

\* Lines 509-524: one iteration of the loop, newest message first.
HistoryIter ==
    /\ historyPc = "loop"
    /\ historyI >= 0
    /\ LET message == messages[historyI + 1]
           messageTokens == estimateTokenCount(message.content)
       IN  IF tokenCount + messageTokens > historyMaxTokens
           THEN /\ historyPc' = "done"
                /\ UNCHANGED <<conversation, tokenCount, historyI>>
           ELSE /\ conversation' =
                      << [role |-> RoleOf(message), content |-> message.content] >>
                          \o conversation
                /\ tokenCount' = tokenCount + messageTokens
                /\ historyI' = historyI - 1
                /\ UNCHANGED historyPc
    /\ UNCHANGED <<sessionLog, historyMaxTokens, messages, chunkVars, cacheVars, storeVars, contextVars, chatVars, batchVars, embedVars, cleanupVars>>

\* Lines 509, 526: the loop has passed the oldest message.
HistoryReturn ==
    /\ historyPc = "loop"
    /\ historyI < 0
    /\ historyPc' = "done"
    /\ UNCHANGED <<sessionLog, historyMaxTokens, messages, historyI, conversation, tokenCount,
                   chunkVars, cacheVars, storeVars, contextVars, chatVars, batchVars, embedVars, cleanupVars>>

\* Inputs: message contents of 0, 1, 2 and 3 estimated tokens, from the user
\* or the assistant; logs of up to MaxMessages messages; limits up to MaxBudget.
MessageContents ==
    { << >>, <<"x">>, <<"y", "y", "y", "y", "y">>,
      <<"z", "z", "z", "z", "z", "z", "z", "z", "z">> }

StoredMessages == [isFromUser : BOOLEAN, content : MessageContents]

SessionLogs == UNION { [1..n -> StoredMessages] : n \in 0..MaxMessages }

InitHistory ==
    /\ sessionLog \in SessionLogs
    /\ historyMaxTokens \in 0..MaxBudget
    /\ messages = << >>
    /\ historyI = 0
    /\ conversation = << >>
    /\ tokenCount = 0
    /\ historyPc = "call"
    /\ CacheConstructed
    /\ ChunkIdle
    /\ StoreIdle
    /\ ContextIdle
    /\ ChatIdle
    /\ BatchIdle
    /\ EmbedIdle
    /\ CleanupIdle

NextHistory ==
    \/ HistoryCall
    \/ HistoryIter
    \/ HistoryReturn

SpecHistory == InitHistory /\ [][NextHistory]_vars

(***************************************************************************)
(* The context sections of getChatResponseWithContextAndReferences         *)
(* Strings are kept by their lengths: a title by a name that stands for    *)
(* the whole string and its number of characters, a chunk's content by its *)
(* number of characters. No title or content begins or ends with blanks.   *)
(***************************************************************************)
\* Lines 14, 16 and 932
CHUNK_SIZE == 800
MAX_CHUNKS_PER_QUERY == 5
MAX_CONTEXT_TOKENS == 4000

\* estimateTokenCount of a string of n characters.
TokensOfChars(n) == (n + 3) \div 4

\* The number a property key is the canonical form of ("7" is 7), or -1 for a
\* key that is not an array index ("Modul").
ArrayIndex(title) == IF title.name = "7" THEN 7 ELSE -1

\* The decimal digits of a number below 1000.
Digits(n) == IF n < 10 THEN 1 ELSE IF n < 100 THEN 2 ELSE 3

\* Lines 908-929: the keys of documentGroups in the order they were created.
InsertionOrder(ranked) ==
    LET first == { k \in 1..Len(ranked) :
                     \A j \in 1..(k - 1) : ranked[j].title # ranked[k].title }
        pick[n \in 0..Cardinality(first)] ==
            IF n = 0 THEN << >>
            ELSE Append(pick[n - 1],
                        CHOOSE k \in first :
                            Cardinality({ j \in first : j < k }) = n - 1)
    IN  [n \in 1..Cardinality(first) |-> ranked[pick[Cardinality(first)][n]].title]

\* Line 936, Object.values: the array-index keys in ascending numeric order,
\* then the other keys in the order they were created.
ObjectValuesOrder(keys) ==
    LET isIndex(t) == ArrayIndex(t) >= 0
        notIndex(t) == ArrayIndex(t) < 0
        idx == SelectSeq(keys, isIndex)
        rank(n) == Cardinality({ j \in 1..Len(idx) :
                                   ArrayIndex(idx[j]) < ArrayIndex(idx[n]) })
    IN  [n \in 1..Len(idx) |-> idx[CHOOSE j \in 1..Len(idx) : rank(j) = n - 1]]
            \o SelectSeq(keys, notIndex)

\* Lines 906-929: the groups, each with its chunks in ranked order and their
\* 1-based places in the ranking.
GroupsOf(ranked) ==
    LET keys == ObjectValuesOrder(InsertionOrder(ranked))
        numbered == [k \in 1..Len(ranked) |->
                        [title |-> ranked[k].title,
                         contentChars |-> ranked[k].contentChars,
                         similarity |-> ranked[k].similarity,
                         chunkIndex |-> k]]
    IN  [n \in 1..Len(keys) |->
            [title |-> keys[n],
             chunks |-> SelectSeq(numbered, LAMBDA c : c.title = keys[n])]]

\* Lines 941-943: the characters of one rendered chunk,
\* "**Bagian N** (Relevansi: P.0%)" newline content newline newline.
ChunkTextChars(chunk) ==
    27 + Digits(chunk.chunkIndex) + Digits(chunk.similarity) + 2
       + chunk.contentChars + 2

\* The loop with the limit tested after a chunk is added, not before.
RECURSIVE RenderChunksTestAfter(_, _, _)
RenderChunksTestAfter(cs, k, count) ==
    IF k > Len(cs) THEN [shown |-> << >>, count |-> count, marker |-> FALSE]
    ELSE IF count > MAX_CONTEXT_TOKENS
         THEN [shown |-> << >>, count |-> count, marker |-> TRUE]
         ELSE LET chunkTokens == TokensOfChars(ChunkTextChars(cs[k]))
                  rest == RenderChunksTestAfter(cs, k + 1, count + chunkTokens)
              IN  [rest EXCEPT !.shown = << cs[k] >> \o @]

\* Lines 940-954: the chunks of one document from the k-th on, with count
\* tokens already used.
RECURSIVE RenderChunks(_, _, _)
RenderChunks(cs, k, count) ==
    IF k > Len(cs) THEN [shown |-> << >>, count |-> count, marker |-> FALSE]
    ELSE LET chunkTokens == TokensOfChars(ChunkTextChars(cs[k]))
         IN  IF count + chunkTokens > MAX_CONTEXT_TOKENS
             THEN [shown |-> << >>, count |-> count, marker |-> TRUE]
             ELSE LET rest == RenderChunks(cs, k + 1, count + chunkTokens)
                  IN  [rest EXCEPT !.shown = << cs[k] >> \o @]

\* The loop over the documents stopping within one chunk of the limit.
RECURSIVE RenderDocsStopNearLimit(_, _, _)
RenderDocsStopNearLimit(groups, d, count) ==
    IF d > Len(groups) THEN [sections |-> << >>, count |-> count]
    ELSE LET r == RenderChunks(groups[d].chunks, 1, count)
             section == [title |-> groups[d].title, shown |-> r.shown,
                         marker |-> r.marker]
         IN  IF r.count >= MAX_CONTEXT_TOKENS - CHUNK_SIZE
             THEN [sections |-> << section >>, count |-> r.count]
             ELSE LET rest == RenderDocsStopNearLimit(groups, d + 1, r.count)
                  IN  [rest EXCEPT !.sections = << section >> \o @]

\* Lines 936-962: the sections from the d-th document on.
RECURSIVE RenderDocs(_, _, _)
RenderDocs(groups, d, count) ==
    IF d > Len(groups) THEN [sections |-> << >>, count |-> count]
    ELSE LET r == RenderChunks(groups[d].chunks, 1, count)
             section == [title |-> groups[d].title, shown |-> r.shown,
                         marker |-> r.marker]
         IN  IF r.count >= MAX_CONTEXT_TOKENS
             THEN [sections |-> << section >>, count |-> r.count]
             ELSE LET rest == RenderDocs(groups, d + 1, r.count)
                  IN  [rest EXCEPT !.sections = << section >> \o @]

\* Lines 904-962
AssembleContext ==
    /\ contextPc = "call"
    /\ documentGroups' = GroupsOf(relevantChunks)
    /\ LET r == RenderDocs(GroupsOf(relevantChunks), 1, 0)
       IN  /\ contextSections' = r.sections
           /\ contextTokenCount' = r.count
    /\ contextPc' = "done"
    /\ UNCHANGED <<relevantChunks, chunkVars, cacheVars, storeVars, histVars, chatVars, batchVars, embedVars, cleanupVars>>

\* Inputs: a short title, a title that is an array index, and a title of 7000
\* characters; contents of one character and of a full chunk (CHUNK_SIZE * 4
\* characters); similarities of two digits and of one, in percent; at most
\* MAX_CHUNKS_PER_QUERY chunks, as findSimilarChunks returns at line 855; and,
\* for two of the titles, a content that renders to CHUNK_SIZE tokens, five
\* of which come to MAX_CONTEXT_TOKENS exactly.
Titles ==
    { [name |-> "Modul", chars |-> 5], [name |-> "7", chars |-> 1],
      [name |-> "Lampiran", chars |-> 7000] }

RankedChunks ==
    [title : Titles, contentChars : {1, CHUNK_SIZE * 4}, similarity : {68, 7}]
        \cup [title : {t \in Titles : t.chars < 10},
              contentChars : {CHUNK_SIZE * 4 - 36}, similarity : {68}]

RankedResults(limit) ==
    { rs \in UNION { [1..n -> RankedChunks] : n \in 0..limit } :
        \A k \in 1..(Len(rs) - 1) : rs[k].similarity >= rs[k + 1].similarity }

InitContext ==
    /\ relevantChunks \in RankedResults(MAX_CHUNKS_PER_QUERY)
    /\ documentGroups = << >>
    /\ contextSections = << >>
    /\ contextTokenCount = 0
    /\ contextPc = "call"
    /\ CacheConstructed
    /\ ChunkIdle
    /\ StoreIdle
    /\ HistoryIdle
    /\ CleanupIdle
    /\ EmbedIdle
    /\ BatchIdle
    /\ ChatIdle

NextContext == AssembleContext

SpecContext == InitContext /\ [][NextContext]_vars

(***************************************************************************)
(* getChatResponseWithContextAndReferences: the parallel stage and the     *)
(* request. A text is kept by its number of characters; results[k] is the  *)
(* promise results[k-1] of the source.                                     *)
(***************************************************************************)
\* Line 1184
MAX_SAFE_TOKENS == 15000

Pending == [status |-> "pending", value |-> << >>, failed |-> FALSE]

Fulfilled(v) == [status |-> "fulfilled", value |-> v, failed |-> FALSE]

\* What each task returns when nothing fails inside it: ranked chunks, a
\* trimmed history, references.
TaskValues(k) ==
    IF k = 1
    THEN { << >>,
           << [title |-> [name |-> "Modul", chars |-> 5],
               contentChars |-> CHUNK_SIZE * 4, similarity |-> 68] >> }
    ELSE IF k = 2
    THEN { << >>, << [role |-> "user", chars |-> 8000, notice |-> FALSE] >> }
    ELSE { NoReferences,
           [journals |-> << "journal" >>, books |-> << >>, websites |-> << >>] }

\* Lines 483-486, 527-530 and 1422-1429: each task catches its own failure and
\* returns its empty value, so its promise is fulfilled.
TaskCaught(k) ==
    [status |-> "fulfilled", value |-> IF k = 3 THEN NoReferences ELSE << >>,
     failed |-> TRUE]

\* Taking the default whatever the promise holds.
SettledValueDropped(result, default) == default

\* Lines 873-876, 884-885: the value of a fulfilled promise, else the default.
SettledValue(result, default) ==
    IF result.status = "fulfilled" THEN result.value ELSE default

\* Lines 854-867: the promises are created.
ChatStart ==
    /\ chatPc = "start"
    /\ results' = << Pending,
                     IF sessionId THEN Pending ELSE Fulfilled(<< >>),
                     IF includeExternalReferences THEN Pending ELSE NoPromise >>
    /\ chatPc' = "parallel"
    /\ UNCHANGED <<userMessage, sessionId, includeExternalReferences,
                   conversationHistory, externalReferences, systemPrompt,
                   totalTokenEstimate, chatMessages,
                   chunkVars, cacheVars, storeVars, histVars, contextVars, batchVars, embedVars, cleanupVars>>

\* One of the pending tasks ends, in any order with respect to the others.
TaskSettle ==
    /\ chatPc = "parallel"
    /\ \E k \in 1..3 :
         /\ results[k].status = "pending"
         /\ \E out \in { Fulfilled(v) : v \in TaskValues(k) } \cup { TaskCaught(k) } :
              results' = [results EXCEPT ![k] = out]
    /\ UNCHANGED <<userMessage, sessionId, includeExternalReferences,
                   conversationHistory, externalReferences, systemPrompt,
                   totalTokenEstimate, chatMessages, chatPc,
                   chunkVars, cacheVars, storeVars, histVars, contextVars, batchVars, embedVars, cleanupVars>>

\* Lines 869-895: Promise.allSettled has resolved; the values are taken.
ChatExtract ==
    /\ chatPc = "parallel"
    /\ \A k \in 1..3 : results[k].status # "pending"
    /\ relevantChunks' = SettledValue(results[1], << >>)
    /\ conversationHistory' = SettledValue(results[2], << >>)
    /\ externalReferences' =
          IF includeExternalReferences /\ results[3].status # "none"
          THEN SettledValue(results[3], NoReferences)
          ELSE NoReferences
    /\ chatPc' = "extracted"
    /\ UNCHANGED <<userMessage, sessionId, includeExternalReferences, results,
                   systemPrompt, totalTokenEstimate, chatMessages,
                   documentGroups, contextSections, contextTokenCount, contextPc,
                   chunkVars, cacheVars, storeVars, histVars, batchVars, embedVars, cleanupVars>>

\* Lines 1042-1131: the characters of the system prompt, with the context
\* sections and references when there are chunks, and without.
SystemPromptChars(withContext) ==
    IF withContext THEN {20000, 70000} ELSE {1100}

RECURSIVE SumTokens(_)
SumTokens(msgs) ==
    IF msgs = << >> THEN 0
    ELSE TokensOfChars(Head(msgs).chars) + SumTokens(Tail(msgs))

\* Lines 901-1151: the system prompt, the messages and their estimate.
ChatBuildMessages ==
    /\ chatPc = "extracted"
    /\ \E chars \in SystemPromptChars(Len(relevantChunks) > 0) :
         /\ systemPrompt' = [chars |-> chars, notice |-> FALSE]
         /\ chatMessages' =
               << [role |-> "system", chars |-> chars, notice |-> FALSE] >>
                   \o conversationHistory
                   \o << [role |-> "user", chars |-> userMessage, notice |-> FALSE] >>
    /\ totalTokenEstimate' = SumTokens(chatMessages')
    /\ chatPc' = "built"
    /\ UNCHANGED <<userMessage, sessionId, includeExternalReferences, results,
                   conversationHistory, externalReferences,
                   chunkVars, cacheVars, storeVars, histVars, contextVars, batchVars, embedVars, cleanupVars>>

\* Lines 1183-1203: the system prompt is cut when the estimate is over
\* MAX_SAFE_TOKENS and the prompt is longer than the target; the notice has 88
\* characters.
ChatCeiling ==
    /\ chatPc = "built"
    /\ LET targetSystemPromptTokens ==
               Max(2000, MAX_SAFE_TOKENS - TokensOfChars(userMessage) - 1000)
           targetSystemPromptChars == targetSystemPromptTokens * 4
       IN  IF totalTokenEstimate > MAX_SAFE_TOKENS
              /\ systemPrompt.chars > targetSystemPromptChars
           THEN /\ systemPrompt' = [chars |-> targetSystemPromptChars + 88,
                                     notice |-> TRUE]
                /\ chatMessages' = [chatMessages EXCEPT ![1] =
                       [role |-> "system", chars |-> targetSystemPromptChars + 88,
                        notice |-> TRUE]]
           ELSE UNCHANGED <<systemPrompt, chatMessages>>
    /\ chatPc' = "checked"
    /\ UNCHANGED <<userMessage, sessionId, includeExternalReferences, results,
                   conversationHistory, externalReferences, totalTokenEstimate,
                   chunkVars, cacheVars, storeVars, histVars, contextVars, batchVars, embedVars, cleanupVars>>

\* Lines 1205-1218 and 1219-1271: the chat completion is called with the
\* messages; it answers, or it throws and the error is rethrown.
ChatComplete ==
    /\ chatPc = "checked"
    /\ \E answered \in BOOLEAN :
         chatPc' = IF answered THEN "returned" ELSE "threw"
    /\ UNCHANGED <<userMessage, sessionId, includeExternalReferences, results,
                   conversationHistory, externalReferences, systemPrompt,
                   totalTokenEstimate, chatMessages,
                   chunkVars, cacheVars, storeVars, histVars, contextVars, batchVars, embedVars, cleanupVars>>

\* Inputs: user messages of 20, 40000 and 60000 characters, with and without
\* a session, with and without external references.
UserMessageChars == {20, 40000, 60000}

InitChat ==
    /\ userMessage \in UserMessageChars
    /\ sessionId \in BOOLEAN
    /\ includeExternalReferences \in BOOLEAN
    /\ results = << NoPromise, NoPromise, NoPromise >>
    /\ conversationHistory = << >>
    /\ externalReferences = NoReferences
    /\ systemPrompt = NoPrompt
    /\ totalTokenEstimate = 0
    /\ chatMessages = << >>
    /\ chatPc = "start"
    /\ CacheConstructed
    /\ ChunkIdle
    /\ StoreIdle
    /\ HistoryIdle
    /\ CleanupIdle
    /\ EmbedIdle
    /\ BatchIdle
    /\ ContextIdle

NextChat ==
    \/ ChatStart
    \/ TaskSettle
    \/ ChatExtract
    \/ ChatBuildMessages
    \/ ChatCeiling
    \/ ChatComplete

SpecChat == InitChat /\ [][NextChat]_vars

(***************************************************************************)
(* Claims about findSimilarChunks                                          *)
(***************************************************************************)
Returned == lastQuery.returned

AllAboveThreshold ==
    \A i \in 1..Len(Returned) : Returned[i].similarity > SIMILARITY_THRESHOLD

\* C1 as stated: every returned similarity is above the threshold and each is
\* strictly greater than the next.
StrictlyDescendingAboveThreshold ==
    /\ AllAboveThreshold
    /\ \A i \in 1..(Len(Returned) - 1) : Returned[i].similarity > Returned[i + 1].similarity

\* C1 as amended: every returned similarity is above the threshold and none is
\* smaller than the next (chunks with equal similarity may both be returned).
DescendingAboveThreshold ==
    /\ AllAboveThreshold
    /\ \A i \in 1..(Len(Returned) - 1) : Returned[i].similarity >= Returned[i + 1].similarity

\* C1 witness: an answer with two equal similarities followed by a smaller one.
DescendingAboveThresholdWitness ==
    /\ Len(Returned) = 3
    /\ Returned[1].similarity = Returned[2].similarity
    /\ Returned[2].similarity > Returned[3].similarity

\* The rows a query is meant to see: of a document of the course, that document
\* processed, with a vector, and more similar to the query than the threshold.
InScope(r, courseId) ==
    /\ CourseOf(document_chunks[r].contentId) = courseId
    /\ contents[document_chunks[r].contentId].isProcessed
    /\ document_chunks[r].embeddings # Null

Expected(courseId, query) ==
    { r \in 1..Len(document_chunks) :
        /\ InScope(r, courseId)
        /\ 100 - CosineDistance(document_chunks[r].embeddings, query) > SIMILARITY_THRESHOLD }

ScenarioTables ==
    /\ contents[1].isProcessed
    /\ [i \in 1..Len(document_chunks) |-> document_chunks[i].embeddings]
          = <<"v3", "v4", "v5", "v6">>
    /\ \A i \in 1..Len(document_chunks) : document_chunks[i].contentId = 1

\* C2: a successful query returns the first `limit` of the expected rows in
\* descending order of similarity: min(limit, number expected) distinct expected
\* rows, in descending order, none less similar than a row left out; and on
\* similarities 0.68, 0.34, 0.12, 0.03 it returns 0.68, 0.34, 0.12.
ReturnsTopLimit ==
    lastQuery.failure = "none" /\ lastQuery # NoQuery =>
        LET rows == Expected(lastQuery.courseId, lastQuery.query)
            n == Len(Returned)
        IN  /\ n = Min(lastQuery.limit, Cardinality(rows))
            /\ \A i \in 1..n : Returned[i].chunkId \in rows
            /\ \A i \in 1..n : Returned[i].similarity
                   = 100 - CosineDistance(document_chunks[Returned[i].chunkId].embeddings,
                                          lastQuery.query)
            /\ \A i, j \in 1..n : i < j =>
                   /\ Returned[i].chunkId # Returned[j].chunkId
                   /\ Returned[i].similarity >= Returned[j].similarity
            /\ \A r \in rows : (\A i \in 1..n : Returned[i].chunkId # r) =>
                   \A i \in 1..n : Returned[i].similarity
                       >= 100 - CosineDistance(document_chunks[r].embeddings, lastQuery.query)
            /\ ScenarioTables /\ lastQuery.courseId = "cA" /\ lastQuery.query = "v1"
                 /\ lastQuery.limit >= 3
                 => [i \in 1..n |-> Returned[i].similarity] = <<68, 34, 12>>

\* C2 witness: the scenario, asked with a limit of 3, and answered.
ReturnsTopLimitWitness ==
    /\ ScenarioTables
    /\ lastQuery.failure = "none"
    /\ lastQuery.courseId = "cA"
    /\ lastQuery.query = "v1"
    /\ lastQuery.limit = 3
    /\ Len(Returned) = 3

\* C3: every returned chunk is of a processed document of the course asked for
\* and has a vector; a course without a processed document gets the empty
\* sequence and no error.
OnlyProcessedOfCourse ==
    /\ \A i \in 1..Len(Returned) : InScope(Returned[i].chunkId, lastQuery.courseId)
    /\ lastQuery # NoQuery
         /\ (\A d \in ContentIds : CourseOf(d) = lastQuery.courseId => ~contents[d].isProcessed)
         => Returned = << >> /\ ~lastQuery.threw

\* C3 witness: a successful, empty answer for a course whose only document is
\* being ingested and already has chunks stored.
OnlyProcessedOfCourseWitness ==
    /\ lastQuery.failure = "none"
    /\ lastQuery.limit > 0
    /\ Returned = << >>
    /\ \E w \in Workers :
         /\ proc[w].pc = "chunks"
         /\ CourseOf(proc[w].contentId) = lastQuery.courseId
         /\ ~contents[proc[w].contentId].isProcessed
         /\ \E r \in 1..Len(document_chunks) :
              /\ document_chunks[r].contentId = proc[w].contentId
              /\ 100 - CosineDistance(document_chunks[r].embeddings, lastQuery.query)
                    > SIMILARITY_THRESHOLD

\* C4: a call in which the embedding or the database query failed returns the
\* empty sequence and throws nothing.
ErrorsDegradeToEmpty ==
    lastQuery.failure # "none" => Returned = << >> /\ ~lastQuery.threw

\* C4 witness: the database query failed although rows were there to return.
ErrorsDegradeToEmptyWitness ==
    /\ lastQuery.failure = "database"
    /\ lastQuery.limit > 0
    /\ Expected(lastQuery.courseId, lastQuery.query) # {}

(***************************************************************************)
(* Claims about the embedding cache                                        *)
(***************************************************************************)
\* C5: in every reachable state the cache holds at most maxSize entries.
CacheSizeBounded == Len(cache) <= maxSize

\* The set call the log follows wrote the key of text s and still stands.
Followed(s) == setLog # NoSet /\ Normalized(setLog.text) = Normalized(s)

\* C6: a get for a text with the normalized form of an earlier set's text
\* returns that set's vector, provided the entry is no older than the TTL and
\* nothing was removed or overwritten in between.
CacheRoundTrip ==
    lastOp.op = "get" /\ Followed(lastOp.text) /\ now - setLog.at <= ttl
        => lastOp.ret = setLog.vec

\* C6 witness: a hit through a text written differently from the one that was set.
CacheRoundTripWitness ==
    /\ lastOp.op = "get"
    /\ Followed(lastOp.text)
    /\ lastOp.text # setLog.text
    /\ lastOp.ret = setLog.vec

\* A step that is a call of get.
GetStep == lastOp'.op = "get" /\ hitCount' + missCount' # hitCount + missCount

\* C7: get misses when the key has no entry or the entry is older than the TTL
\* since its insertion, the expired entry is gone after the call, and a hit
\* changes nothing but the entry's last-access time.
GetHonoursTtl ==
    [][GetStep =>
        LET s == lastOp'.text
            key == generateKey(s)
        IN  /\ key \notin CacheKeys => lastOp'.ret = Null
            /\ Followed(s) /\ now - setLog.at > ttl => lastOp'.ret = Null
            /\ lastOp'.ret = Null => \A i \in 1..Len(cache') : cache'[i].key # key
            /\ lastOp'.ret # Null =>
                 /\ key \in CacheKeys
                 /\ cache' = [cache EXCEPT ![IndexOfKey(key)].lastAccessed = now]]_vars

\* C7 witness: a get served at the last instant of the entry's life, after an
\* earlier hit on it.
GetHonoursTtlWitness ==
    /\ lastOp.op = "get"
    /\ lastOp.ret # Null
    /\ Followed(lastOp.text)
    /\ now - setLog.at = ttl
    /\ hitCount = 2

(***************************************************************************)
(* Claims about chunkText                                                  *)
(***************************************************************************)
\* C8: the window start strictly advances on every iteration of the loop.
ChunkStartAdvances ==
    [][chunkPc = "loop" /\ chunkPc' = "loop" => start' > start]_vars

NonWs(s) == SelectSeq(s, LAMBDA c : c \notin Whitespace)

\* The chunks from the i-th on, each without the tail it shares with its successor.
RECURSIVE Rebuild(_)
Rebuild(i) ==
    IF i > Len(chunks) THEN << >>
    ELSE LET keep == IF i = Len(chunks) THEN Len(chunks[i].content)
                     ELSE Max(0, Min(spans[i][2], spans[i + 1][1]) - spans[i][1])
         IN  SubSeq(chunks[i].content, 1, keep) \o Rebuild(i + 1)

SpansIncreasing == \A i \in 1..(Len(spans) - 1) : spans[i][1] < spans[i + 1][1]

Covered ==
    \A p \in 0..(Len(text) - 1) :
        text[p + 1] \notin Whitespace =>
            \E i \in 1..Len(spans) : spans[i][1] <= p /\ p < spans[i][2]

\* C9: the chunks are emitted in increasing source order, and the returned
\* chunks cover every non-whitespace character and rebuild the text's
\* non-whitespace content once the shared tails are removed.
ChunksCoverText ==
    /\ SpansIncreasing
    /\ chunkPc = "done" => Covered /\ NonWs(Rebuild(1)) = NonWs(text)

\* C10: a text shorter than maxTokens*4 characters yields exactly one chunk, the
\* trimmed text, with tokenCount = ceil(length of the content / 4).
ShortTextSingleTrimmedChunk ==
    chunkPc = "done" /\ Len(text) < maxChars =>
        /\ Len(chunks) = 1
        /\ chunks[1].content = Trim(text)
        /\ chunks[1].tokenCount = (Len(chunks[1].content) + 3) \div 4

\* C11: with overlapChars >= maxChars chunkText is not in its sliding-window
\* loop and has returned no chunks: the configuration was rejected.
InvalidConfigRejected ==
    overlapChars >= maxChars => chunkPc # "loop" /\ chunks = << >>

(***************************************************************************)
(* Claims about processDocument                                            *)
(***************************************************************************)
\* The ordinals stored for a document, in the order the rows were inserted.
OrdinalsOf(contentId) ==
    LET rows == SelectSeq(document_chunks, LAMBDA r : r.contentId = contentId)
    IN  [k \in 1..Len(rows) |-> rows[k].chunkIndex]

\* C12: when no processDocument run is under way, the ordinals stored for each
\* document are 0, 1, ..., n-1 in this order.
OrdinalsContiguous ==
    (\A w \in Workers : proc[w].pc = "idle") =>
        \A d \in ContentIds :
            \A k \in 1..Len(OrdinalsOf(d)) : OrdinalsOf(d)[k] = k - 1

\* C13: when no processDocument run is under way, no two rows of a document
\* carry the same ordinal, as is the case when a run replaces the rows of the
\* run before it.
ReprocessingIdempotent ==
    (\A w \in Workers : proc[w].pc = "idle") =>
        \A d \in ContentIds :
            \A j, k \in 1..Len(OrdinalsOf(d)) :
                j # k => OrdinalsOf(d)[j] # OrdinalsOf(d)[k]

(***************************************************************************)
(* Claims about getConversationHistory                                     *)
(***************************************************************************)
\* The estimated tokens of the k newest messages of the session's log.
RECURSIVE NewestTokens(_)
NewestTokens(k) ==
    IF k = 0 THEN 0
    ELSE estimateTokenCount(sessionLog[Len(sessionLog) - k + 1].content)
             + NewestTokens(k - 1)

\* The greatest k such that the k newest messages fit the limit.
LongestFit ==
    LET fits == { k \in 0..Len(sessionLog) : NewestTokens(k) <= historyMaxTokens }
    IN  CHOOSE k \in fits : \A j \in fits : j <= k

\* C14: a call that read the session's log returns the longest suffix of the
\* log whose estimated tokens sum to at most the limit, oldest first, each
\* message with its role and its content; none when the newest is too long.
HistoryIsLongestSuffix ==
    historyPc = "done" =>
        /\ Len(conversation) = LongestFit
        /\ \A k \in 1..LongestFit :
               LET message == sessionLog[Len(sessionLog) - LongestFit + k]
               IN  /\ conversation[k].content = message.content
                   /\ conversation[k].role = (IF message.isFromUser THEN "user" ELSE "assistant")
        /\ (Len(sessionLog) > 0
              /\ estimateTokenCount(sessionLog[Len(sessionLog)].content) > historyMaxTokens
              => conversation = << >>)

\* C14 witness: a log of three messages of which exactly the two newest fit,
\* one from the user and one from the assistant.
HistoryIsLongestSuffixWitness ==
    /\ historyPc = "done"
    /\ Len(sessionLog) = 3
    /\ Len(conversation) = 2
    /\ conversation[1].role # conversation[2].role
    /\ tokenCount = historyMaxTokens

(***************************************************************************)
(* Claims about the context sections                                       *)
(***************************************************************************)
\* The characters of a section: "## Dokumen: " title, a blank line, the chunks
\* shown, the notice of 68 characters if any, less the two newlines trim() drops.
SectionChars(section) ==
    LET sum[n \in 0..Len(section.shown)] ==
            IF n = 0 THEN 0 ELSE sum[n - 1] + ChunkTextChars(section.shown[n])
    IN  12 + section.title.chars + 2 + sum[Len(section.shown)]
           + (IF section.marker THEN 68 ELSE 0) - 2

\* The characters of the sections joined by the separator of 7 characters.
RenderedChars ==
    LET sum[n \in 0..Len(contextSections)] ==
            IF n = 0 THEN 0 ELSE sum[n - 1] + SectionChars(contextSections[n])
    IN  sum[Len(contextSections)] + 7 * Max(0, Len(contextSections) - 1)

RankedTokens(k) == TokensOfChars(ChunkTextChars(documentGroups[k[1]].chunks[k[2]]))

RankedPlaces ==
    { k \in (1..Len(documentGroups)) \X (1..MAX_CHUNKS_PER_QUERY) :
        k[2] <= Len(documentGroups[k[1]].chunks) }

CombinedTokens ==
    LET places == RankedPlaces
        sum[S \in SUBSET places] ==
            IF S = {} THEN 0
            ELSE LET k == CHOOSE x \in S : TRUE IN RankedTokens(k) + sum[S \ {k}]
    IN  sum[places]

\* The rendered chunks shown: their estimated tokens and their characters.
ShownTokens ==
    LET of(section) ==
            LET sum[n \in 0..Len(section.shown)] ==
                    IF n = 0 THEN 0
                    ELSE sum[n - 1] + TokensOfChars(ChunkTextChars(section.shown[n]))
            IN  sum[Len(section.shown)]
        sum[n \in 0..Len(contextSections)] ==
            IF n = 0 THEN 0 ELSE sum[n - 1] + of(contextSections[n])
    IN  sum[Len(contextSections)]

ShownChars ==
    LET of(section) ==
            LET sum[n \in 0..Len(section.shown)] ==
                    IF n = 0 THEN 0 ELSE sum[n - 1] + ChunkTextChars(section.shown[n])
            IN  sum[Len(section.shown)]
        sum[n \in 0..Len(contextSections)] ==
            IF n = 0 THEN 0 ELSE sum[n - 1] + of(contextSections[n])
    IN  sum[Len(contextSections)]

\* C15 as stated: when the rendered chunks together exceed MAX_CONTEXT_TOKENS,
\* the estimated tokens of the rendered context exceed MAX_CONTEXT_TOKENS by no
\* more than the estimated tokens of the largest rendered chunk.
ContextOverrunBounded ==
    contextPc = "done" /\ CombinedTokens > MAX_CONTEXT_TOKENS =>
        \E k \in RankedPlaces :
            TokensOfChars(RenderedChars) <= MAX_CONTEXT_TOKENS + RankedTokens(k)

\* C15 as amended: the rendered chunks shown come to at most
\* MAX_CONTEXT_TOKENS estimated tokens, which is the count the loop keeps; the
\* rendered context exceeds MAX_CONTEXT_TOKENS by no more than the estimated
\* tokens of what is not counted: the headers, the notices and the separators.
ContextChunksWithinBudget ==
    contextPc = "done" =>
        /\ ShownTokens <= MAX_CONTEXT_TOKENS
        /\ contextTokenCount = ShownTokens
        /\ TokensOfChars(RenderedChars)
              <= MAX_CONTEXT_TOKENS + TokensOfChars(RenderedChars - ShownChars)

\* C15 witness: the chunks together exceed the limit, a notice stands for the
\* chunk left out, and the rendered context is over the limit.
ContextChunksWithinBudgetWitness ==
    /\ contextPc = "done"
    /\ CombinedTokens > MAX_CONTEXT_TOKENS
    /\ \E n \in 1..Len(contextSections) : contextSections[n].marker
    /\ TokensOfChars(RenderedChars) > MAX_CONTEXT_TOKENS

\* The place in the ranking of the first chunk of the document of a title.
FirstPlace(title) ==
    CHOOSE k \in 1..Len(relevantChunks) :
        /\ relevantChunks[k].title = title
        /\ \A j \in 1..(k - 1) : relevantChunks[j].title # title

\* C16: the sections are in the order in which their documents first occur in
\* the ranking, and the first section is of the document of the first chunk.
SectionsInRankedOrder ==
    contextPc = "done" =>
        /\ \A j, k \in 1..Len(contextSections) :
               j < k => FirstPlace(contextSections[j].title)
                           < FirstPlace(contextSections[k].title)
        /\ relevantChunks # << >> => contextSections[1].title = relevantChunks[1].title

(***************************************************************************)
(* Claims about getChatResponseWithContextAndReferences                    *)
(***************************************************************************)
Extracted == chatPc \in {"extracted", "built", "checked", "returned", "threw"}

\* C17: once the parallel stage is over, whatever failed and whatever did not,
\* a task that failed or was not started has given its empty value, a task that
\* succeeded has given exactly what it returned, and the call has not thrown
\* before building the request for the chat completion.
TasksFailureIsolated ==
    /\ Extracted =>
         /\ relevantChunks = (IF results[1].failed THEN << >> ELSE results[1].value)
         /\ conversationHistory =
               (IF results[2].failed \/ ~sessionId THEN << >> ELSE results[2].value)
         /\ externalReferences =
               (IF results[3].failed \/ ~includeExternalReferences
                THEN NoReferences ELSE results[3].value)
    /\ chatPc = "threw" => chatMessages # << >>

\* C17 witness: retrieval failed, the history and the references succeeded
\* with something to give, and the chat completion was called and answered.
TasksFailureIsolatedWitness ==
    /\ chatPc = "returned"
    /\ results[1].failed
    /\ ~results[2].failed /\ conversationHistory # << >>
    /\ ~results[3].failed /\ externalReferences # NoReferences

\* C18: when the estimate of the request is over MAX_SAFE_TOKENS, the system
\* prompt sent ends with the notice, and the history and the user's message
\* are sent as they were.
CeilingTruncatesSystemPrompt ==
    chatPc \in {"checked", "returned", "threw"} /\ totalTokenEstimate > MAX_SAFE_TOKENS =>
        /\ chatMessages[1].notice
        /\ SubSeq(chatMessages, 2, Len(chatMessages) - 1) = conversationHistory
        /\ chatMessages[Len(chatMessages)]
              = [role |-> "user", chars |-> userMessage, notice |-> FALSE]

\* C19: a run of processDocument in which generateEmbeddings threw for a chunk
\* does not end with the document marked processed: it ends in the catch
\* block, with the document not processed and an error message recorded.
EmbeddingFailureFailsDocument ==
    \A w \in Workers :
        proc[w].pc \in {"returned", "threw"} /\ proc[w].embeddingFailed =>
            /\ proc[w].pc = "threw"
            /\ ~contents[proc[w].contentId].isProcessed
            /\ contents[proc[w].contentId].processingError # Null


(***************************************************************************)
(* processAllCourseDocuments                                               *)
(***************************************************************************)
\* The documents of the batch runs: one of course cA, two of course cB, all
\* with a documentUrl.
BatchContentIds == {1, 2, 3}

\* The orders in which findMany (no orderBy) can return the rows of a set.
Orderings(S) ==
    {order \in [1..Cardinality(S) -> S] : \A d \in S : \E k \in DOMAIN order : order[k] = d}

\* Lines 1437-1443: the WHERE clause of the findMany.
UnprocessedOfCourse(courseId) ==
    {d \in DOMAIN contents : CourseOf(d) = courseId /\ ~contents[d].isProcessed}

\* Lines 1437-1449, and the outer catch of 1464-1467 when findMany throws.
BatchCall ==
    /\ batchPc = "call"
    /\ \E findManyThrows \in BOOLEAN :
        IF findManyThrows
        THEN /\ batchPc' = "threw"
             /\ UNCHANGED unprocessedContent
        ELSE /\ batchPc' = "loop"
             /\ unprocessedContent' \in Orderings(UnprocessedOfCourse(batchCourseId))
    /\ UNCHANGED <<batchCourseId, failingDocuments, batchI, batchResults, chunkVars, cacheVars, storeVars, histVars, contextVars, chatVars, embedVars, cleanupVars>>

\* Lines 1450-1452: the loop calls processDocument on the next document; its
\* file is fetched and parsed, or that throws (lines 313-332).
BatchDispatch ==
    \E w \in DOMAIN proc :
        /\ batchPc = "loop"
        /\ batchI < Len(unprocessedContent)
        /\ proc[w].pc = "idle"
        /\ proc' = [proc EXCEPT ![w] =
                        BeginRun(unprocessedContent[batchI + 1],
                                 unprocessedContent[batchI + 1] \notin failingDocuments)]
        /\ batchPc' = "await"
        /\ UNCHANGED <<batchCourseId, failingDocuments, unprocessedContent, batchI, batchResults, contents, document_chunks, runsStarted, lastQuery, chunkVars, cacheVars, histVars, contextVars, chatVars, embedVars, cleanupVars>>

\* The entry pushed for a run that returned (line 1453) or threw (1455-1459).
ResultEntry(run) ==
    IF run.pc = "returned"
    THEN [contentId |-> run.contentId, success |-> TRUE,
          chunksCreated |-> Len(DocChunks(run.contentId)), error |-> Null]
    ELSE [contentId |-> run.contentId, success |-> FALSE,
          chunksCreated |-> 0, error |-> "error"]

\* The entry with nothing pushed for a run that threw.
BatchCollectDroppingFailures ==
    \E w \in DOMAIN proc :
        /\ batchPc = "await"
        /\ proc[w].pc \in {"returned", "threw"}
        /\ batchResults' = IF proc[w].pc = "returned"
                            THEN Append(batchResults, ResultEntry(proc[w]))
                            ELSE batchResults
        /\ batchI' = batchI + 1
        /\ batchPc' = "loop"
        /\ proc' = [proc EXCEPT ![w] = Idle]
        /\ UNCHANGED <<batchCourseId, failingDocuments, unprocessedContent, contents, document_chunks, runsStarted, lastQuery, chunkVars, cacheVars, histVars, contextVars, chatVars, embedVars, cleanupVars>>

\* Lines 1451-1460: the await resolves or rejects, an entry is pushed, and the
\* loop goes on.
BatchCollect ==
    \E w \in DOMAIN proc :
        /\ batchPc = "await"
        /\ proc[w].pc \in {"returned", "threw"}
        /\ batchResults' = Append(batchResults, ResultEntry(proc[w]))
        /\ batchI' = batchI + 1
        /\ batchPc' = "loop"
        /\ proc' = [proc EXCEPT ![w] = Idle]
        /\ UNCHANGED <<batchCourseId, failingDocuments, unprocessedContent, contents, document_chunks, runsStarted, lastQuery, chunkVars, cacheVars, histVars, contextVars, chatVars, embedVars, cleanupVars>>

\* Line 1463
BatchReturn ==
    /\ batchPc = "loop"
    /\ batchI = Len(unprocessedContent)
    /\ batchPc' = "returned"
    /\ UNCHANGED <<batchCourseId, failingDocuments, unprocessedContent, batchI, batchResults, chunkVars, cacheVars, storeVars, histVars, contextVars, chatVars, embedVars, cleanupVars>>

InitBatch ==
    /\ batchCourseId \in Courses
    /\ failingDocuments \in SUBSET BatchContentIds
    /\ unprocessedContent = << >>
    /\ batchI = 0
    /\ batchResults = << >>
    /\ batchPc = "call"
    /\ contents \in [BatchContentIds -> {Unprocessed, Processed}]
    /\ document_chunks = << >>
    /\ proc = [w \in Workers |-> Idle]
    /\ runsStarted = 0
    /\ lastQuery = NoQuery
    /\ CacheConstructed
    /\ ChunkIdle
    /\ HistoryIdle
    /\ CleanupIdle
    /\ EmbedIdle
    /\ ContextIdle
    /\ ChatIdle

NextBatch ==
    \/ BatchCall
    \/ BatchDispatch
    \/ ProcessDocumentMeta
    \/ ProcessDocumentChunk
    \/ ProcessDocumentMarkProcessed
    \/ ProcessDocumentCatch
    \/ BatchCollect
    \/ BatchReturn

SpecBatch == InitBatch /\ [][NextBatch]_vars

\* C20: when processAllCourseDocuments returns, its list has exactly one entry
\* per document of the course that was unprocessed, in the order they were
\* attempted; a document whose fetch or parse failed is not processed, has an
\* error message recorded and a success=false entry, and every other one of
\* them has a success=true entry and is processed. The call throws only when
\* the findMany does, before any document was attempted.
BatchIsolatesFailures ==
    /\ batchPc = "returned" =>
        /\ Len(batchResults) = Len(unprocessedContent)
        /\ \A d \in DOMAIN contents :
               Cardinality({k \in DOMAIN batchResults : batchResults[k].contentId = d})
                 = IF CourseOf(d) = batchCourseId
                      /\ (\E k \in DOMAIN unprocessedContent : unprocessedContent[k] = d)
                   THEN 1 ELSE 0
        /\ \A d \in DOMAIN contents :
               CourseOf(d) = batchCourseId
               /\ (\A k \in DOMAIN unprocessedContent : unprocessedContent[k] # d)
                 => contents[d] = Processed
        /\ \A k \in DOMAIN batchResults :
               LET entry == batchResults[k]
                   content == contents[entry.contentId]
               IN  /\ entry.contentId = unprocessedContent[k]
                   /\ IF entry.contentId \in failingDocuments
                      THEN /\ ~entry.success
                           /\ entry.error # Null
                           /\ ~content.isProcessed
                           /\ content.processingError # Null
                      ELSE /\ entry.success
                           /\ content.isProcessed
    /\ batchPc = "threw" => batchResults = << >> /\ unprocessedContent = << >>

\* A call returned after its first document failed and its second one was
\* processed.
BatchIsolatesFailuresWitness ==
    /\ batchPc = "returned"
    /\ Len(batchResults) = 2
    /\ ~batchResults[1].success
    /\ batchResults[2].success
    /\ ~contents[batchResults[1].contentId].isProcessed
    /\ contents[batchResults[2].contentId].isProcessed


\* C21: a set call on a cache at capacity removes exactly one of the entries
\* it finds, one whose lastAccessed is the least among them, and then writes
\* its own entry.
SetEvictsLeastRecentlyAccessed ==
    [][CacheSet /\ Len(cache) >= maxSize =>
          \E i \in 1..Len(cache), k \in 1..Len(cache') :
              /\ \A j \in 1..Len(cache) : cache[i].lastAccessed <= cache[j].lastAccessed
              /\ cache' = MapSet(MapDelete(cache, cache[i].key), cache'[k])]_vars

\* A step that is a call of cleanup.
CleanupStep == lastOp'.op = "cleanup" /\ lastOp.op # "cleanup"

\* C22: after a sweep no entry is older than the TTL, every entry that was
\* not older than the TTL is still there unchanged and in its place among the
\* others, nothing else is there, and the hit and miss counters are unchanged.
SweepDropsExactlyExpired ==
    [][CleanupStep =>
        /\ \A k \in 1..Len(cache') : now' - cache'[k].timestamp <= ttl
        /\ \A i \in 1..Len(cache) :
               now - cache[i].timestamp <= ttl =>
                   \E k \in 1..Len(cache') : cache'[k] = cache[i]
        /\ \A k \in 1..Len(cache') : \E i \in 1..Len(cache) : cache'[k] = cache[i]
        /\ Len(cache') = Cardinality({i \in 1..Len(cache) : now - cache[i].timestamp <= ttl})
        /\ hitCount' = hitCount
        /\ missCount' = missCount]_vars

\* C22 witness: a sweep removed an entry and kept one at the last instant of
\* its life that had been read since its insertion, with a hit counted.
SweepDropsExactlyExpiredWitness ==
    /\ lastOp.op = "cleanup"
    /\ lastOp.removedCount = 1
    /\ Len(cache) = 1
    /\ now - cache[1].timestamp = ttl
    /\ hitCount = 1


(***************************************************************************)
(* generateEmbeddings(text): the two cache lookups run without a break,    *)
(* the await of the embedding service is where other calls, the sweep and  *)
(* the clock come in.                                                      *)
(***************************************************************************)
MaxCalls == 3

\* One cache or service call made by generateEmbeddings: its name and what it
\* returned (for set, what it stored).
Made(op, ret) == [op |-> op, ret |-> ret]

\* No call is between its get and its findSimilarCached.
NoneInLookups == \A c \in Callers : embedCalls[c].pc # "fuzzy"

\* Line 271
EmbedCall ==
    \E c \in Callers, s \in CacheTexts :
        /\ NoneInLookups
        /\ embedCalls[c].pc = "idle"
        /\ callsStarted < MaxCalls
        /\ callsStarted' = callsStarted + 1
        /\ embedCalls' = [embedCalls EXCEPT ![c] =
                             [pc |-> "get", text |-> s, trace |-> << >>, ret |-> Null]]
        /\ UNCHANGED <<cacheVars, chunkVars, storeVars, histVars, contextVars, chatVars, batchVars, cleanupVars>>

\* A call that goes to the fuzzy lookup without the exact one.
EmbedGetSkipped(c) ==
    /\ embedCalls[c].pc = "get"
    /\ embedCalls' = [embedCalls EXCEPT ![c].pc = "fuzzy"]
    /\ UNCHANGED <<cacheVars, callsStarted, chunkVars, storeVars, histVars, contextVars, chatVars, batchVars, cleanupVars>>

\* Lines 274-277
EmbedGet(c) ==
    LET s == embedCalls[c].text
        cachedEmbedding == CacheGetResult(s)
    IN  /\ embedCalls[c].pc = "get"
        /\ cache' = CacheGetEffect(s)
        /\ IF cachedEmbedding = Null
           THEN missCount' = missCount + 1 /\ hitCount' = hitCount
           ELSE hitCount' = hitCount + 1 /\ missCount' = missCount
        /\ lastOp' = [op |-> "get", text |-> s, ret |-> cachedEmbedding, removedCount |-> 0]
        /\ setLog' = NoSet
        /\ embedCalls' = [embedCalls EXCEPT
               ![c].trace = Append(@, Made("get", cachedEmbedding)),
               ![c].ret = cachedEmbedding,
               ![c].pc = IF cachedEmbedding = Null THEN "fuzzy" ELSE "returned"]
        /\ UNCHANGED <<now, callsStarted, chunkVars, storeVars, histVars, contextVars, chatVars, batchVars, cleanupVars>>

EmbedGetStep == \E c \in Callers : EmbedGet(c)

\* Lines 280-283
EmbedFindSimilar ==
    \E c \in Callers :
        LET s == embedCalls[c].text
            found == SimilarMatches(s, 85)
            similarEmbedding == IF found = {} THEN Null
                                ELSE cache[FirstOf(found)].embeddings
        IN  /\ embedCalls[c].pc = "fuzzy"
            /\ IF found = {}
               THEN UNCHANGED <<cache, hitCount>>
               ELSE /\ cache' = [cache EXCEPT ![FirstOf(found)].lastAccessed = now]
                    /\ hitCount' = hitCount + 1
            /\ lastOp' = [op |-> "findSimilarCached", text |-> s,
                          ret |-> similarEmbedding, removedCount |-> 0]
            /\ embedCalls' = [embedCalls EXCEPT
                   ![c].trace = Append(@, Made("findSimilarCached", similarEmbedding)),
                   ![c].ret = similarEmbedding,
                   ![c].pc = IF similarEmbedding = Null THEN "service" ELSE "returned"]
            /\ UNCHANGED <<now, missCount, setLog, callsStarted, chunkVars, storeVars, histVars, contextVars, chatVars, batchVars, cleanupVars>>

\* Lines 290-303: the service answers, the answer is stored and returned.
EmbedServiceAnswers ==
    \E c \in Callers :
        LET s == embedCalls[c].text
            embedding == ServiceVector(s)
        IN  /\ NoneInLookups
            /\ embedCalls[c].pc = "service"
            /\ cache' = CacheSetEffect(s, embedding)
            /\ lastOp' = [op |-> "set", text |-> << >>, ret |-> Null, removedCount |-> 0]
            /\ setLog' = NoSet
            /\ embedCalls' = [embedCalls EXCEPT
                   ![c].trace = @ \o << Made("create", embedding), Made("set", embedding) >>,
                   ![c].ret = embedding,
                   ![c].pc = "returned"]
            /\ UNCHANGED <<now, hitCount, missCount, callsStarted, chunkVars, storeVars, histVars, contextVars, chatVars, batchVars, cleanupVars>>

\* Lines 290-293 and 304-307: the service call throws, the catch rethrows.
EmbedServiceThrows ==
    \E c \in Callers :
        /\ NoneInLookups
        /\ embedCalls[c].pc = "service"
        /\ embedCalls' = [embedCalls EXCEPT
               ![c].trace = Append(@, Made("create", "throw")),
               ![c].pc = "threw"]
        /\ UNCHANGED <<cacheVars, callsStarted, chunkVars, storeVars, histVars, contextVars, chatVars, batchVars, cleanupVars>>

\* Lines 357 and 415: the caller takes what the call returned or threw.
EmbedTaken ==
    \E c \in Callers :
        /\ NoneInLookups
        /\ embedCalls[c].pc \in {"returned", "threw"}
        /\ embedCalls' = [embedCalls EXCEPT ![c] = NoCall]
        /\ UNCHANGED <<cacheVars, callsStarted, chunkVars, storeVars, histVars, contextVars, chatVars, batchVars, cleanupVars>>

\* The timer of the constructor (part_006 lines 17-19) runs the sweep between
\* two tasks.
EmbedSweep == NoneInLookups /\ CacheCleanup

InitEmbed ==
    /\ embedCalls = [c \in Callers |-> NoCall]
    /\ callsStarted = 0
    /\ CacheConstructed
    /\ ChunkIdle
    /\ StoreIdle
    /\ HistoryIdle
    /\ CleanupIdle
    /\ ContextIdle
    /\ ChatIdle
    /\ BatchIdle

NextEmbed ==
    \/ EmbedCall
    \/ EmbedGetStep
    \/ EmbedFindSimilar
    \/ EmbedServiceAnswers
    \/ EmbedServiceThrows
    \/ EmbedTaken
    \/ Tick
    \/ EmbedSweep

SpecEmbed == InitEmbed /\ [][NextEmbed]_vars

LiveEntry(s) ==
    /\ generateKey(s) \in CacheKeys
    /\ ~Expired(cache[IndexOfKey(generateKey(s))], now)

\* C23: a call of generateEmbeddings makes its calls in one order: get first,
\* findSimilarCached only after get returned null, the embedding service only
\* after both returned null, then set with the service's answer, which is in
\* the cache when the call returns it; and a call whose exact-key entry is
\* live returns that entry's vector without any other lookup.
LookupOrderFixed ==
    /\ [](\A c \in Callers :
            LET t == embedCalls[c].trace
                n == Len(t)
            IN  /\ n <= 4
                /\ n >= 1 => t[1].op = "get"
                /\ n >= 2 => t[1].ret = Null /\ t[2].op = "findSimilarCached"
                /\ n >= 3 => t[2].ret = Null /\ t[3].op = "create"
                /\ n >= 4 => t[3].ret # "throw" /\ t[4] = Made("set", t[3].ret)
                /\ embedCalls[c].pc = "returned" =>
                       n \in {1, 2, 4} /\ embedCalls[c].ret = t[n].ret /\ t[n].ret # Null
                /\ embedCalls[c].pc = "threw" => n = 3 /\ t[3].ret = "throw")
    /\ [][\A c \in Callers :
             /\ embedCalls[c].pc = "get" /\ embedCalls'[c].pc # "get"
                /\ LiveEntry(embedCalls[c].text) =>
                   /\ embedCalls'[c].pc = "returned"
                   /\ embedCalls'[c].ret =
                          cache[IndexOfKey(generateKey(embedCalls[c].text))].embeddings
                   /\ Len(embedCalls'[c].trace) = 1
             /\ embedCalls[c].pc = "service" /\ embedCalls'[c].pc = "returned" =>
                   \E k \in 1..Len(cache') :
                       /\ cache'[k].key = generateKey(embedCalls[c].text)
                       /\ cache'[k].embeddings = embedCalls'[c].ret]_vars

\* C23 witness: one call returned the service's answer after both lookups
\* missed, and another then returned the stored vector from its get alone.
LookupOrderFixedWitness ==
    /\ embedCalls["c1"].pc = "returned"
    /\ Len(embedCalls["c1"].trace) = 4
    /\ embedCalls["c2"].pc = "returned"
    /\ Len(embedCalls["c2"].trace) = 1
    /\ embedCalls["c2"].ret = embedCalls["c1"].ret
    /\ Normalized(embedCalls["c2"].text) = Normalized(embedCalls["c1"].text)

\* The 0-based place of the last "." or newline of the text at or before
\* position p, or -1.
LastTerminator(p) ==
    LET at == {i \in 0..Min(p, Len(text) - 1) : text[i + 1] \in {".", "\n"}}
    IN  IF at = {} THEN -1 ELSE CHOOSE i \in at : \A j \in at : j <= i

\* The window end the rule asks for, for a window starting at start.
SnappedEnd ==
    IF 2 * LastTerminator(start + maxChars) > 2 * start + maxChars
    THEN LastTerminator(start + maxChars) + 1
    ELSE start + maxChars

\* C24: an iteration on a non-final window ends the window just after the
\* last "." or newline found backward from start + maxChars when that lies
\* past start + maxChars / 2, and at start + maxChars otherwise: the chunk it
\* pushes is the trimmed text up to there and the next window starts overlap
\* characters before.
BreaksAtSentenceBoundary ==
    [][chunkPc = "loop" /\ chunkPc' = "loop" /\ start + maxChars < Len(text) =>
          /\ start' = SnappedEnd - overlapChars
          /\ start >= 0 =>
                LET chunk == Trim(SubSeq(text, start + 1, SnappedEnd))
                IN  IF chunk = << >> THEN chunks' = chunks
                    ELSE /\ Len(chunks') = Len(chunks) + 1
                         /\ chunks'[Len(chunks')].content = chunk]_vars

\* C24 witness: the first window was cut short, just after a terminator past
\* its 50% mark, and its chunk ends with that terminator.
BreaksAtSentenceBoundaryWitness ==
    /\ chunkPc = "loop"
    /\ Len(chunks) = 1
    /\ start + overlapChars < maxChars
    /\ 2 * (start + overlapChars - 1) > maxChars
    /\ text[start + overlapChars] = "."
    /\ chunks[1].content[Len(chunks[1].content)] = "."

\* C25: every document of the ranking has its section, in the order of the
\* groups; the chunks a section shows are the first ones of its document, in
\* ranked order; and a section that leaves chunks out carries the notice,
\* which no other section carries.
TruncationIsMarked ==
    contextPc = "done" =>
        /\ Len(contextSections) = Len(documentGroups)
        /\ \A n \in 1..Len(contextSections) :
               LET section == contextSections[n]
                   ranked == documentGroups[n].chunks
               IN  /\ section.title = documentGroups[n].title
                   /\ Len(section.shown) <= Len(ranked)
                   /\ section.shown = SubSeq(ranked, 1, Len(section.shown))
                   /\ section.marker <=> Len(section.shown) < Len(ranked)

\* C25 witness: two documents, the second with a chunk shown and a chunk left
\* out under the notice, the first shown whole.
TruncationIsMarkedWitness ==
    /\ contextPc = "done"
    /\ Len(contextSections) = 2
    /\ ~contextSections[1].marker
    /\ contextSections[2].marker
    /\ Len(contextSections[2].shown) >= 1
    /\ Len(contextSections[2].shown) < Len(documentGroups[2].chunks)

\* C26: every chunk chunkText has emitted holds at most maxTokens * 4
\* characters and has a tokenCount of at most maxTokens.
ChunksWithinMaxTokens ==
    \A n \in 1..Len(chunks) :
        /\ Len(chunks[n].content) <= maxChars
        /\ chunks[n].tokenCount <= maxTokens

\* C27: once the ceiling step is over, the messages of the request come to at
\* most MAX_SAFE_TOKENS estimated tokens.
SentWithinCeiling ==
    chatPc \in {"checked", "returned", "threw"} =>
        SumTokens(chatMessages) <= MAX_SAFE_TOKENS


(***************************************************************************)
(* Concurrent ingestion: two runs of processAllCourseDocuments, started by *)
(* chat requests or by an administrator, on courses that each have one     *)
(* document. Nothing in the code keeps two runs from taking the same       *)
(* document.                                                               *)
(***************************************************************************)
ConcurrentRuns == {"r1", "r2"}

\* Lines 1437-1443 (after chatController.js lines 26-39): the findMany of a
\* run finds the unprocessed document of its course.
RunFindMany ==
    \E w \in DOMAIN proc, courseId \in Courses :
        /\ proc[w].pc = "idle"
        /\ runsStarted < MaxRuns
        /\ runsStarted' = runsStarted + 1
        /\ \E contentId \in UnprocessedOfCourse(courseId) :
               proc' = [proc EXCEPT ![w] = [Idle EXCEPT !.pc = "listed",
                                                        !.contentId = contentId]]
        /\ UNCHANGED <<contents, document_chunks, lastQuery, chunkVars, cacheVars, histVars, contextVars, chatVars, batchVars, embedVars, cleanupVars>>

\* Lines 1450-1452 and 313-332: the run calls processDocument on the document
\* it found; the file is fetched and parsed, or that throws.
RunDispatch ==
    \E w \in DOMAIN proc, ok \in BOOLEAN :
        /\ proc[w].pc = "listed"
        /\ proc' = [proc EXCEPT ![w] = BeginRun(proc[w].contentId, ok)]
        /\ UNCHANGED <<contents, document_chunks, runsStarted, lastQuery, chunkVars, cacheVars, histVars, contextVars, chatVars, batchVars, embedVars, cleanupVars>>

InitConcurrent ==
    /\ contents = [d \in ContentIds |-> Unprocessed]
    /\ document_chunks = << >>
    /\ proc = [w \in ConcurrentRuns |-> Idle]
    /\ runsStarted = 0
    /\ lastQuery = NoQuery
    /\ CacheConstructed
    /\ ChunkIdle
    /\ HistoryIdle
    /\ CleanupIdle
    /\ ContextIdle
    /\ ChatIdle
    /\ BatchIdle
    /\ EmbedIdle

NextConcurrent ==
    \/ RunFindMany
    \/ RunDispatch
    \/ ProcessDocumentMeta
    \/ ProcessDocumentChunk
    \/ ProcessDocumentMarkProcessed
    \/ ProcessDocumentCatch
    \/ ProcessDocumentTaken

SpecConcurrent == InitConcurrent /\ [][NextConcurrent]_vars

\* C28: no two stored chunks of a document have the same ordinal.
OrdinalsDistinct ==
    \A j, k \in 1..Len(document_chunks) :
        j # k /\ document_chunks[j].contentId = document_chunks[k].contentId =>
            document_chunks[j].chunkIndex # document_chunks[k].chunkIndex

\* C29: no document is marked processed while it carries a processing error.
StatusIsOneOfThree ==
    \A d \in DOMAIN contents :
        contents[d].isProcessed => contents[d].processingError = Null


(***************************************************************************)
(* The cleanup scheduler: runCleanup, startCleanupScheduler,               *)
(* stopCleanupScheduler and runManualCleanup. A callback or a request runs *)
(* without a break up to its await of cleanupExpiredFiles.                 *)
(***************************************************************************)
MaxInvocations == 4

\* Lines 46-61
StartCleanupScheduler ==
    /\ ~cleanupInterval
    /\ cleanupInterval' = TRUE
    /\ UNCHANGED <<isCleanupRunning, invocations, invocationsMade, chunkVars, cacheVars, storeVars, histVars, contextVars, chatVars, batchVars, embedVars>>

\* Lines 66-74
StopCleanupScheduler ==
    /\ cleanupInterval
    /\ cleanupInterval' = FALSE
    /\ UNCHANGED <<isCleanupRunning, invocations, invocationsMade, chunkVars, cacheVars, storeVars, histVars, contextVars, chatVars, batchVars, embedVars>>

\* A callback that starts the cleanup whatever the flag says.
TimerFiresUnguarded(c) ==
    /\ cleanupInterval
    /\ invocations[c].pc = "idle"
    /\ invocationsMade < MaxInvocations
    /\ invocationsMade' = invocationsMade + 1
    /\ isCleanupRunning' = TRUE
    /\ invocations' = [invocations EXCEPT ![c] = [pc |-> "running", outcome |-> "none"]]
    /\ UNCHANGED <<cleanupInterval, chunkVars, cacheVars, storeVars, histVars, contextVars, chatVars, batchVars, embedVars>>

\* Lines 55 and 58 with 13-25: a timer calls runCleanup, which returns at once
\* when a cleanup is running, and otherwise raises the flag and awaits
\* cleanupExpiredFiles.
TimerFires(c) ==
    /\ cleanupInterval
    /\ invocations[c].pc = "idle"
    /\ invocationsMade < MaxInvocations
    /\ invocationsMade' = invocationsMade + 1
    /\ IF isCleanupRunning
       THEN /\ invocations' = [invocations EXCEPT ![c] = [pc |-> "idle", outcome |-> "skipped"]]
            /\ UNCHANGED isCleanupRunning
       ELSE /\ isCleanupRunning' = TRUE
            /\ invocations' = [invocations EXCEPT ![c] = [pc |-> "running", outcome |-> "none"]]
    /\ UNCHANGED <<cleanupInterval, chunkVars, cacheVars, storeVars, histVars, contextVars, chatVars, batchVars, embedVars>>

TimerFiresStep == \E c \in Timers : TimerFires(c)

\* Lines 90-96 with 13-25: a manual request throws when a cleanup is running,
\* and otherwise calls runCleanup, which raises the flag and awaits
\* cleanupExpiredFiles.
ManualRequest ==
    \E c \in Manuals :
        /\ invocations[c].pc = "idle"
        /\ invocationsMade < MaxInvocations
        /\ invocationsMade' = invocationsMade + 1
        /\ IF isCleanupRunning
           THEN /\ invocations' = [invocations EXCEPT ![c] = [pc |-> "idle", outcome |-> "rejected"]]
                /\ UNCHANGED isCleanupRunning
           ELSE /\ isCleanupRunning' = TRUE
                /\ invocations' = [invocations EXCEPT ![c] = [pc |-> "running", outcome |-> "none"]]
        /\ UNCHANGED <<cleanupInterval, chunkVars, cacheVars, storeVars, histVars, contextVars, chatVars, batchVars, embedVars>>

\* Lines 25-40: cleanupExpiredFiles resolves or rejects; the finally block
\* lowers the flag in both cases.
CleanupSettles ==
    \E c \in Timers \cup Manuals, resolved \in BOOLEAN :
        /\ invocations[c].pc = "running"
        /\ invocations' = [invocations EXCEPT ![c] =
               [pc |-> "idle", outcome |-> IF resolved THEN "completed" ELSE "failed"]]
        /\ isCleanupRunning' = FALSE
        /\ UNCHANGED <<cleanupInterval, invocationsMade, chunkVars, cacheVars, storeVars, histVars, contextVars, chatVars, batchVars, embedVars>>

InitCleanup ==
    /\ isCleanupRunning = FALSE
    /\ cleanupInterval = FALSE
    /\ invocations = [c \in Timers \cup Manuals |-> NotInvoked]
    /\ invocationsMade = 0
    /\ CacheConstructed
    /\ ChunkIdle
    /\ StoreIdle
    /\ HistoryIdle
    /\ ContextIdle
    /\ ChatIdle
    /\ BatchIdle
    /\ EmbedIdle

NextCleanup ==
    \/ StartCleanupScheduler
    \/ StopCleanupScheduler
    \/ TimerFiresStep
    \/ ManualRequest
    \/ CleanupSettles

\* cleanupExpiredFiles is awaited I/O that resolves or rejects in the end.
SpecCleanup == InitCleanup /\ [][NextCleanup]_vars /\ WF_vars(CleanupSettles)

Running == {c \in Timers \cup Manuals : invocations[c].pc = "running"}

\* C30: at most one execution of cleanupExpiredFiles is in progress, and the
\* flag is up exactly while one is; a timer that fires while one is in
\* progress skips and a manual request made meanwhile is rejected, neither
\* touching the flag; the end of an execution, resolved or rejected, lowers
\* the flag; and a raised flag is lowered in the end.
CleanupRunsOneAtATime ==
    /\ [](Cardinality(Running) <= 1 /\ (isCleanupRunning <=> Running # {}))
    /\ [][/\ \A c \in Timers \cup Manuals :
               isCleanupRunning /\ invocationsMade' # invocationsMade
               /\ invocations'[c] # invocations[c] =>
                   /\ invocations'[c].pc = "idle"
                   /\ invocations'[c].outcome =
                          IF c \in Timers THEN "skipped" ELSE "rejected"
                   /\ isCleanupRunning'
                   /\ Running' = Running
          /\ \A c \in Running :
               invocations'[c].pc = "idle" =>
                   /\ invocations'[c].outcome \in {"completed", "failed"}
                   /\ ~isCleanupRunning']_vars
    /\ (isCleanupRunning ~> ~isCleanupRunning)

\* C30 witness: while a manual run is in progress, a timer has skipped and
\* the other manual request was rejected, after a run that failed.
CleanupRunsOneAtATimeWitness ==
    /\ invocations["manual1"].pc = "running"
    /\ invocations["interval"].outcome = "skipped"
    /\ invocations["manual2"].outcome = "rejected"
    /\ invocations["timeout"].outcome = "failed"
    /\ isCleanupRunning

====
